---------------------------- MODULE Spec2Model ----------------------------
(***************************************************************************)
(* A model of the ticket-intake gateway (servicenow-ticketingsystem):      *)
(* the retry wrapper of the remote client, the incident-creation pipeline  *)
(* (createClientIncident), the resolution service (resolveIncident), the   *)
(* HTTP routes that call them and the classification engine                *)
(* (classifyAndRecommend) with its rule table.                             *)
(***************************************************************************)
EXTENDS Integers, Sequences, FiniteSets, TLC

(***************************************************************************)
(* Bounds of the model.                                                    *)
(***************************************************************************)
\* requests served one after the other in the sequential specification
MaxRequests == 2
\* runs of the seed operation, and the items of each list a run goes over
MaxSeedRuns == 2
MaxSeedItems == 2

(***************************************************************************)
(* The retry wrapper: withRetry                                            *)
(* (docs/servicenow/SERVICENOW_ERROR_HANDLING_GUIDE.md, 119-152).          *)
(***************************************************************************)
\* maxAttempts: number = 5
maxAttempts == 5

\* An error that carries no statusCode (a local or transport error): in
\* JavaScript error.statusCode is undefined and both comparisons of the
\* wrapper's 4xx test are false.
NoStatus == 0

\* The outcomes one call of fn() can have: 200 resolves the promise, every
\* other value is the statusCode of the error it rejects with.
Statuses == {200, 400, 404, 429, 500, 503, NoStatus}

IsSuccess(status) == status = 200

\* What the specification calls retryable: HTTP 429 or 5xx.
IsRetryableStatus(status) == status = 429 \/ (status >= 500 /\ status < 600)

\* if (error.statusCode >= 400 && error.statusCode < 500) throw error;
\* (the variant before it has the lower limit exclusive)
ThrowsAs4xxExclusive(status) == status > 400 /\ status < 500
ThrowsAs4xx(status) == status >= 400 /\ status < 500

\* if (attempt === maxAttempts) throw error;
\* (the variant before it is off by one)
IsLastAttemptOffByOne(attempt) == attempt = maxAttempts + 1
IsLastAttempt(attempt) == attempt = maxAttempts

\* The wrapper's state at the start: the for loop is entered with attempt = 1
\* and fn() is about to be called.
NewCall == [phase |-> "calling", attempt |-> 1, calls |-> 0, delays |-> 0,
            lastError |-> NoStatus]

NoCall == [phase |-> "none", attempt |-> 0, calls |-> 0, delays |-> 0,
           lastError |-> NoStatus]

\* One pass through the loop body up to the next suspension: fn() is called
\* and either resolves (return), or rejects and the catch block throws or
\* starts the backoff delay.
withRetryAttempt(c, status) ==
    IF IsSuccess(status)
    THEN [c EXCEPT !.phase = "returned", !.calls = c.calls + 1]
    ELSE IF ThrowsAs4xx(status) \/ IsLastAttempt(c.attempt)
         THEN [c EXCEPT !.phase = "raised", !.calls = c.calls + 1,
                        !.lastError = status]
         ELSE [c EXCEPT !.phase = "waiting", !.calls = c.calls + 1,
                        !.lastError = status]

\* The setTimeout promise resolves: attempt++ and the loop's test
\* attempt <= maxAttempts; past the loop, throw lastError.
\* (the variant before it starts the loop over after the delay)
withRetryResumeFromStart(c) == [NewCall EXCEPT !.lastError = c.lastError]
withRetryResume(c) ==
    IF c.attempt + 1 <= maxAttempts
    THEN [c EXCEPT !.phase = "calling", !.attempt = c.attempt + 1,
                   !.delays = c.delays + 1]
    ELSE [c EXCEPT !.phase = "raised", !.attempt = c.attempt + 1,
                   !.delays = c.delays + 1]

CallDone(c) == c.phase \in {"returned", "raised"}

\* const baseDelay = 500;
baseDelay == 500

\* const delay = baseDelay * Math.pow(2, attempt - 1);
\* (the variant before it has the exponent of the ruleset's formula,
\* delay = baseDelay * (2 ^ attempt))
delayOfAttempt(attempt) == baseDelay * 2^attempt
delay(attempt) == baseDelay * 2^(attempt - 1)

\* Math.random(): a number in [0, 1), here in tenths: the least value, the
\* middle and the largest tenth.
RandomTenths == {0, 5, 9}

\* const jitter = delay * 0.15 * (Math.random() * 2 - 1);
\* (the variant before it has a jitter of up to the whole delay)
jitterWhole(d, random) == (d * (2 * random - 10)) \div 10
jitter(d, random) == (d * 15 * (2 * random - 10)) \div 1000

\* const totalDelay = delay + jitter;
totalDelay(attempt, random) == delay(attempt) + jitter(delay(attempt), random)

\* What is left of a call once the awaiting handler has taken its outcome:
\* the promise is fulfilled (return await fn()) or rejected with the error
\* (throw error / throw lastError); attempt and the loop's other locals are
\* gone with the wrapper's frame.
outcome(c) ==
    [NoCall EXCEPT !.phase = c.phase,
                   !.lastError = IF c.phase = "raised" THEN c.lastError
                                 ELSE NoStatus]

(***************************************************************************)
(* Strings.  A text is a sequence of one-character strings, so that        *)
(* String.prototype.includes and toLowerCase are computed, not assumed.    *)
(* Labels that the code only compares or copies as a whole (categories,    *)
(* topics, resource labels) are strings.  The source's en dash in the      *)
(* category labels is written "-" here.                                    *)
(***************************************************************************)
\* An optional value (undefined in the source) is None, a present one Some(x).
None == <<>>
Some(x) == <<x>>

UpperCase == <<"A", "B", "C", "D", "E", "F", "G", "H", "I", "J", "K", "L", "M",
               "N", "O", "P", "Q", "R", "S", "T", "U", "V", "W", "X", "Y", "Z">>
LowerCase == <<"a", "b", "c", "d", "e", "f", "g", "h", "i", "j", "k", "l", "m",
               "n", "o", "p", "q", "r", "s", "t", "u", "v", "w", "x", "y", "z">>

\* String.prototype.toLowerCase, character by character.
\* (the variant before toLowerCase leaves the case as it is)
keepCase(s) == s

toLowerCaseChar(c) ==
    IF \E i \in 1..Len(UpperCase) : UpperCase[i] = c
    THEN LowerCase[CHOOSE i \in 1..Len(UpperCase) : UpperCase[i] = c]
    ELSE c

toLowerCase(s) == [i \in 1..Len(s) |-> toLowerCaseChar(s[i])]

\* String.prototype.includes: kw occurs in text as a contiguous substring.
includes(text, kw) ==
    \E i \in 0..(Len(text) - Len(kw)) :
        \A j \in 1..Len(kw) : text[i + j] = kw[j]

(***************************************************************************)
(* The rule table: CLASSIFICATION_RULES                                    *)
(* (src/docsdesk/classification-rules.ts, 22-421).  A resource's url is    *)
(* left out: nothing in the pipeline reads it.                             *)
(***************************************************************************)
CLASSIFICATION_RULES == <<
    \* rule 1: classification-rules.ts 24-50
    [category |-> "Google Workspace - Account Access",
     matchKeywords |-> Some(<<<<"p", "a", "s", "s", "w", "o", "r", "d">>,
            <<"l", "o", "g", "i", "n">>,
            <<"a", "c", "c", "e", "s", "s">>,
            <<"a", "c", "c", "o", "u", "n", "t">>,
            <<"l", "o", "c", "k", "e", "d">>,
            <<"r", "e", "s", "e", "t">>>>),
     matchErrorCodes |-> None,
     topic |-> "Google Workspace Account Access",
     resources |->
        <<[type |-> "doc", label |-> "Google Workspace Account Access Troubleshooting"],
          [type |-> "doc", label |-> "Reset Google Workspace User Password"],
          [type |-> "video", label |-> "Google Workspace Admin Console Walkthrough"],
          [type |-> "doc", label |-> "Two-Factor Authentication Setup Guide"]>>],
    \* rule 2: classification-rules.ts 51-61
    [category |-> "Google Workspace - Account Access",
     matchKeywords |-> None,
     matchErrorCodes |-> None,
     topic |-> "General Google Workspace Account Access Support",
     resources |->
        <<[type |-> "doc", label |-> "Google Workspace Admin Help"]>>],
    \* rule 3: classification-rules.ts 64-85
    [category |-> "Google Workspace - Groups & Permissions",
     matchKeywords |-> Some(<<<<"g", "r", "o", "u", "p">>,
            <<"p", "e", "r", "m", "i", "s", "s", "i", "o", "n">>,
            <<"s", "h", "a", "r", "e">>,
            <<"a", "c", "c", "e", "s", "s">>,
            <<"m", "e", "m", "b", "e", "r">>>>),
     matchErrorCodes |-> None,
     topic |-> "Google Workspace Groups & Permissions",
     resources |->
        <<[type |-> "doc", label |-> "Manage Google Groups"],
          [type |-> "doc", label |-> "Share Files and Folders in Google Drive"],
          [type |-> "video", label |-> "Google Workspace Permissions Overview"]>>],
    \* rule 4: classification-rules.ts 86-96
    [category |-> "Google Workspace - Groups & Permissions",
     matchKeywords |-> None,
     matchErrorCodes |-> None,
     topic |-> "General Google Workspace Groups & Permissions Support",
     resources |->
        <<[type |-> "doc", label |-> "Google Workspace Admin Help"]>>],
    \* rule 5: classification-rules.ts 99-121
    [category |-> "HubSpot - Lifecycle & Automation",
     matchKeywords |-> Some(<<<<"l", "i", "f", "e", "c", "y", "c", "l", "e">>,
            <<"w", "o", "r", "k", "f", "l", "o", "w">>,
            <<"a", "u", "t", "o", "m", "a", "t", "i", "o", "n">>,
            <<"d", "e", "a", "l", " ", "s", "t", "a", "g", "e">>,
            <<"p", "i", "p", "e", "l", "i", "n", "e">>,
            <<"e", "n", "r", "o", "l", "l", "m", "e", "n", "t">>>>),
     matchErrorCodes |-> Some(<<<<"W", "F", "-">>,
            <<"H", "S", "-", "W", "F">>>>),
     topic |-> "HubSpot Lifecycle & Automation",
     resources |->
        <<[type |-> "doc", label |-> "HubSpot Lifecycle Playbook"],
          [type |-> "video", label |-> "HubSpot Workflow Debug Walkthrough"],
          [type |-> "doc", label |-> "HubSpot Automation Best Practices"]>>],
    \* rule 6: classification-rules.ts 122-132
    [category |-> "HubSpot - Lifecycle & Automation",
     matchKeywords |-> None,
     matchErrorCodes |-> None,
     topic |-> "General HubSpot Lifecycle & Automation Support",
     resources |->
        <<[type |-> "doc", label |-> "HubSpot Lifecycle & Automation Documentation"]>>],
    \* rule 7: classification-rules.ts 135-157
    [category |-> "HubSpot - Email Deliverability",
     matchKeywords |-> Some(<<<<"b", "o", "u", "n", "c", "e">>,
            <<"d", "e", "l", "i", "v", "e", "r", "y">>,
            <<"s", "p", "a", "m">>,
            <<"d", "k", "i", "m">>,
            <<"s", "p", "f">>,
            <<"e", "m", "a", "i", "l">>,
            <<"s", "e", "n", "d">>>>),
     matchErrorCodes |-> Some(<<<<"B", "o", "u", "n", "c", "e">>,
            <<"5", ".", "1", ".", "0">>,
            <<"5", ".", "7", ".", "1">>>>),
     topic |-> "HubSpot Email Deliverability",
     resources |->
        <<[type |-> "doc", label |-> "HubSpot Email Deliverability Guide"],
          [type |-> "doc", label |-> "SPF and DKIM Configuration for HubSpot"],
          [type |-> "video", label |-> "Troubleshooting Email Bounces"]>>],
    \* rule 8: classification-rules.ts 158-168
    [category |-> "HubSpot - Email Deliverability",
     matchKeywords |-> None,
     matchErrorCodes |-> None,
     topic |-> "General HubSpot Email Deliverability Support",
     resources |->
        <<[type |-> "doc", label |-> "HubSpot Email Deliverability Documentation"]>>],
    \* rule 9: classification-rules.ts 171-192
    [category |-> "Buildertrend - Estimates & Proposals",
     matchKeywords |-> Some(<<<<"e", "s", "t", "i", "m", "a", "t", "e">>,
            <<"p", "r", "o", "p", "o", "s", "a", "l">>,
            <<"q", "u", "o", "t", "e">>,
            <<"b", "i", "d">>,
            <<"p", "r", "i", "c", "i", "n", "g">>>>),
     matchErrorCodes |-> None,
     topic |-> "Buildertrend Estimates & Proposals",
     resources |->
        <<[type |-> "doc", label |-> "Buildertrend Estimates Guide"],
          [type |-> "video", label |-> "Creating Proposals in Buildertrend"],
          [type |-> "doc", label |-> "Buildertrend Pricing Best Practices"]>>],
    \* rule 10: classification-rules.ts 193-203
    [category |-> "Buildertrend - Estimates & Proposals",
     matchKeywords |-> None,
     matchErrorCodes |-> None,
     topic |-> "General Buildertrend Estimates & Proposals Support",
     resources |->
        <<[type |-> "doc", label |-> "Buildertrend Estimates & Proposals Documentation"]>>],
    \* rule 11: classification-rules.ts 206-227
    [category |-> "Buildertrend - Daily Logs & Timecards",
     matchKeywords |-> Some(<<<<"l", "o", "g">>,
            <<"t", "i", "m", "e", "c", "a", "r", "d">>,
            <<"t", "i", "m", "e">>,
            <<"h", "o", "u", "r", "s">>,
            <<"a", "t", "t", "e", "n", "d", "a", "n", "c", "e">>,
            <<"d", "a", "i", "l", "y">>>>),
     matchErrorCodes |-> None,
     topic |-> "Buildertrend Daily Logs & Timecards",
     resources |->
        <<[type |-> "doc", label |-> "Buildertrend Daily Logs Guide"],
          [type |-> "video", label |-> "Timecard Management in Buildertrend"],
          [type |-> "doc", label |-> "Buildertrend Time Tracking Best Practices"]>>],
    \* rule 12: classification-rules.ts 228-238
    [category |-> "Buildertrend - Daily Logs & Timecards",
     matchKeywords |-> None,
     matchErrorCodes |-> None,
     topic |-> "General Buildertrend Daily Logs & Timecards Support",
     resources |->
        <<[type |-> "doc", label |-> "Buildertrend Daily Logs & Timecards Documentation"]>>],
    \* rule 13: classification-rules.ts 241-262
    [category |-> "Apple Business Essentials - Device Enrollment",
     matchKeywords |-> Some(<<<<"i", "p", "h", "o", "n", "e">>,
            <<"i", "p", "a", "d">>,
            <<"d", "e", "v", "i", "c", "e">>,
            <<"e", "n", "r", "o", "l", "l", "m", "e", "n", "t">>,
            <<"m", "d", "m">>,
            <<"e", "n", "r", "o", "l", "l">>>>),
     matchErrorCodes |-> None,
     topic |-> "Apple Business Essentials Device Enrollment",
     resources |->
        <<[type |-> "doc", label |-> "Apple Business Essentials Device Enrollment"],
          [type |-> "video", label |-> "MDM Configuration Walkthrough"],
          [type |-> "doc", label |-> "Device Enrollment Troubleshooting"]>>],
    \* rule 14: classification-rules.ts 263-273
    [category |-> "Apple Business Essentials - Device Enrollment",
     matchKeywords |-> None,
     matchErrorCodes |-> None,
     topic |-> "General Apple Business Essentials Device Enrollment Support",
     resources |->
        <<[type |-> "doc", label |-> "Apple Business Essentials Device Enrollment Documentation"]>>],
    \* rule 15: classification-rules.ts 276-297
    [category |-> "Website - DNS & Email Routing",
     matchKeywords |-> Some(<<<<"d", "n", "s">>,
            <<"d", "o", "m", "a", "i", "n">>,
            <<"m", "x">>,
            <<"s", "p", "f">>,
            <<"d", "k", "i", "m">>,
            <<"e", "m", "a", "i", "l", " ", "r", "o", "u", "t", "i", "n", "g">>,
            <<"n", "a", "m", "e", "s", "e", "r", "v", "e", "r">>>>),
     matchErrorCodes |-> None,
     topic |-> "Website DNS & Email Routing",
     resources |->
        <<[type |-> "doc", label |-> "DNS Configuration Guide"],
          [type |-> "doc", label |-> "Email Routing Setup"],
          [type |-> "video", label |-> "DNS Record Management Tutorial"]>>],
    \* rule 16: classification-rules.ts 298-308
    [category |-> "Website - DNS & Email Routing",
     matchKeywords |-> None,
     matchErrorCodes |-> None,
     topic |-> "General Website DNS & Email Routing Support",
     resources |->
        <<[type |-> "doc", label |-> "Website DNS & Email Routing Documentation"]>>],
    \* rule 17: classification-rules.ts 311-332
    [category |-> "Website - Content & Layout",
     matchKeywords |-> Some(<<<<"l", "a", "y", "o", "u", "t">>,
            <<"d", "e", "s", "i", "g", "n">>,
            <<"c", "s", "s">>,
            <<"s", "t", "y", "l", "i", "n", "g">>,
            <<"r", "e", "s", "p", "o", "n", "s", "i", "v", "e">>,
            <<"c", "o", "n", "t", "e", "n", "t">>,
            <<"p", "a", "g", "e">>>>),
     matchErrorCodes |-> None,
     topic |-> "Website Content & Layout",
     resources |->
        <<[type |-> "doc", label |-> "Website Design Guidelines"],
          [type |-> "video", label |-> "Responsive Design Best Practices"],
          [type |-> "doc", label |-> "Content Management Best Practices"]>>],
    \* rule 18: classification-rules.ts 333-343
    [category |-> "Website - Content & Layout",
     matchKeywords |-> None,
     matchErrorCodes |-> None,
     topic |-> "General Website Content & Layout Support",
     resources |->
        <<[type |-> "doc", label |-> "Website Content & Layout Documentation"]>>],
    \* rule 19: classification-rules.ts 346-367
    [category |-> "Integrations - Automation / Zapier / Make",
     matchKeywords |-> Some(<<<<"z", "a", "p", "i", "e", "r">>,
            <<"m", "a", "k", "e">>,
            <<"a", "u", "t", "o", "m", "a", "t", "i", "o", "n">>,
            <<"w", "o", "r", "k", "f", "l", "o", "w">>,
            <<"t", "r", "i", "g", "g", "e", "r">>,
            <<"a", "c", "t", "i", "o", "n">>>>),
     matchErrorCodes |-> None,
     topic |-> "Integrations Automation (Zapier / Make)",
     resources |->
        <<[type |-> "doc", label |-> "Zapier Integration Guide"],
          [type |-> "doc", label |-> "Make (Integromat) Automation Guide"],
          [type |-> "video", label |-> "Building Automation Workflows"]>>],
    \* rule 20: classification-rules.ts 368-384
    [category |-> "Integrations - Automation / Zapier / Make",
     matchKeywords |-> Some(<<<<"a", "p", "i">>,
            <<"w", "e", "b", "h", "o", "o", "k">>,
            <<"s", "y", "n", "c">>,
            <<"c", "o", "n", "n", "e", "c", "t", "i", "o", "n">>,
            <<"i", "n", "t", "e", "g", "r", "a", "t", "i", "o", "n">>>>),
     matchErrorCodes |-> None,
     topic |-> "Integration Setup & Configuration",
     resources |->
        <<[type |-> "doc", label |-> "Integration Setup Guide"],
          [type |-> "video", label |-> "Webhook Configuration Tutorial"]>>],
    \* rule 21: classification-rules.ts 385-396
    [category |-> "Integrations - Automation / Zapier / Make",
     matchKeywords |-> Some(<<<<"e", "r", "r", "o", "r">>,
            <<"f", "a", "i", "l", "e", "d">>,
            <<"t", "i", "m", "e", "o", "u", "t">>,
            <<"a", "u", "t", "h", "e", "n", "t", "i", "c", "a", "t", "i", "o", "n">>>>),
     matchErrorCodes |-> None,
     topic |-> "Integration Errors",
     resources |->
        <<[type |-> "doc", label |-> "Integration Error Troubleshooting"]>>],
    \* rule 22: classification-rules.ts 397-407
    [category |-> "Integrations - Automation / Zapier / Make",
     matchKeywords |-> None,
     matchErrorCodes |-> None,
     topic |-> "General Integration Automation Support",
     resources |->
        <<[type |-> "doc", label |-> "Integration Automation Documentation"]>>],
    \* rule 23: classification-rules.ts 410-420
    [category |-> "Other",
     matchKeywords |-> None,
     matchErrorCodes |-> None,
     topic |-> "General Support",
     resources |->
        <<[type |-> "doc", label |-> "General Support Documentation"]>>]
>>

(***************************************************************************)
(* The classification engine: classifyAndRecommend                         *)
(* (src/docsdesk/classification.ts, 25-69), over a given rule table.       *)
(***************************************************************************)
\* const text = `${input.shortDescription} ${input.detailedDescription}`.toLowerCase();
combinedText(input) ==
    toLowerCase(input.shortDescription \o <<" ">> \o input.detailedDescription)

\* CLASSIFICATION_RULES.filter((rule) => rule.category === category)
candidatesOf(rules, category) ==
    SelectSeq(rules, LAMBDA rule : rule.category = category)

\* rule.matchKeywords?.some((kw) => text.includes(kw.toLowerCase())) ?? false
hasKeyword(rule, text) ==
    /\ rule.matchKeywords # None
    /\ \E k \in 1..Len(rule.matchKeywords[1]) :
          includes(text, toLowerCase(rule.matchKeywords[1][k]))

\* errorCode && rule.matchErrorCodes?.some((ec) => errorCode.includes(ec.toLowerCase()))
\* where errorCode = input.errorCode?.toLowerCase(): an absent or empty error
\* code is falsy.
hasErrorCode(rule, inputErrorCode) ==
    /\ inputErrorCode # None
    /\ inputErrorCode[1] # <<>>
    /\ rule.matchErrorCodes # None
    /\ \E k \in 1..Len(rule.matchErrorCodes[1]) :
          includes(toLowerCase(inputErrorCode[1]),
                   toLowerCase(rule.matchErrorCodes[1][k]))

\* if (hasKeyword || hasErrorCode)
ruleMatches(rule, input) ==
    hasKeyword(rule, combinedText(input)) \/ hasErrorCode(rule, input.errorCode)

\* (rule) => !rule.matchKeywords && !rule.matchErrorCodes
\* (the variant before it takes an absent list for an empty one)
isFallbackEmptyLists(rule) ==
    rule.matchKeywords = Some(<<>>) /\ rule.matchErrorCodes = Some(<<>>)
isFallback(rule) == rule.matchKeywords = None /\ rule.matchErrorCodes = None

\* (the variant before it answers with a general topic and a resource)
UNCLASSIFIED_AS_GENERAL ==
    [topic |-> "General Support",
     recommendedResources |-> <<[type |-> "doc", label |-> "Support Guide"]>>]
UNCLASSIFIED == [topic |-> "Unclassified / Manual Review",
                 recommendedResources |-> <<>>]

resultOf(rule) == [topic |-> rule.topic, recommendedResources |-> rule.resources]

\* for (const rule of candidates) returns at the first rule that matches,
\* and Array.prototype.find answers the first element that satisfies.
\* (the variant before it answers the last one)
lastIndex(S) == CHOOSE i \in S : \A j \in S : i >= j
firstIndex(S) == CHOOSE i \in S : \A j \in S : i <= j

\* The first pass (the for loop), then candidates.find(fallback), then the
\* last resort.
\* (the variant before it has one pass: the first rule of the category that
\* matches or is a fallback rule)
classifyWithOnePass(rules, input) ==
    LET candidates == candidatesOf(rules, input.category)
        taken == {i \in 1..Len(candidates) :
                    ruleMatches(candidates[i], input) \/ isFallback(candidates[i])}
    IN  IF taken # {} THEN resultOf(candidates[firstIndex(taken)])
        ELSE UNCLASSIFIED
classifyWith(rules, input) ==
    LET candidates == candidatesOf(rules, input.category)
        matching == {i \in 1..Len(candidates) : ruleMatches(candidates[i], input)}
        fallbacks == {i \in 1..Len(candidates) : isFallback(candidates[i])}
    IN  IF matching # {} THEN resultOf(candidates[firstIndex(matching)])
        ELSE IF fallbacks # {} THEN resultOf(candidates[firstIndex(fallbacks)])
        ELSE UNCLASSIFIED

classifyAndRecommend(input) == classifyWith(CLASSIFICATION_RULES, input)

(***************************************************************************)
(* Request validation (src/utils/validation).                              *)
(***************************************************************************)
\* ClientIncidentCreateSchema: client, category and shortDescription are
\* required, non-empty strings; the other fields are optional.
ClientIncidentCreateSchemaOk(body) ==
    /\ body.client # <<>>
    /\ body.category # ""
    /\ body.shortDescription # <<>>

\* ResolveRequestSchema: sys_id is z.string().min(1), resolution_note is
\* z.string().optional().  The route takes sys_id from the path, so it is a
\* non-empty string; a resolution_note is a [type, value] pair here.
ResolveRequestSchemaOk(body) ==
    IF body.resolution_note = None THEN TRUE
    ELSE body.resolution_note[1].type = "string"

(***************************************************************************)
(* Contact resolution: resolveContactEmail (src/docsdesk/contacts).        *)
(***************************************************************************)
\* if (payload.clientEmail) return { email: payload.clientEmail };
\* return { email: null };   An empty string is falsy.
resolveContactEmail(payload) ==
    IF payload.clientEmail # None /\ payload.clientEmail[1] # ""
    THEN Some(payload.clientEmail[1])
    ELSE None

(***************************************************************************)
(* The automation lane (src/docsdesk/automation.ts).                       *)
(***************************************************************************)
\* return category === 'Google Workspace - Account Access';
\* (the variant before it takes every Google Workspace category)
hasAutomationByPrefix(category) ==
    category \in {"Google Workspace - Account Access",
                  "Google Workspace - Groups & Permissions"}
hasAutomation(category) == category = "Google Workspace - Account Access"

GOOGLE_WORKSPACE_ACCOUNT_ACCESS_RESOURCES ==
    <<[type |-> "doc", label |-> "Google Workspace Account Access Troubleshooting"],
      [type |-> "doc", label |-> "Reset Google Workspace User Password"],
      [type |-> "video", label |-> "Google Workspace Admin Console Walkthrough"],
      [type |-> "doc", label |-> "Two-Factor Authentication Setup Guide"]>>

\* const topic = 'Google Workspace Account Access';
AUTOMATION_TOPIC == "Google Workspace Account Access"

\* The stub: return { sent: false, provider: undefined }
\* (the variant before it reports the email as sent by a provider)
sendAcknowledgementEmailSent(clientEmail) ==
    [sent |-> TRUE, provider |-> Some("smtp")]
sendAcknowledgementEmail(clientEmail) == [sent |-> FALSE, provider |-> None]

\* let emailResult = { sent: false, provider: undefined };
\* if (resolvedEmail) emailResult = await sendAcknowledgementEmail(...)
emailResultOf(resolvedEmail) ==
    IF resolvedEmail # None
    THEN sendAcknowledgementEmail(resolvedEmail[1])
    ELSE [sent |-> FALSE, provider |-> None]

\* The calls of sendAcknowledgementEmail one run of the automation makes:
\* one under if (resolvedEmail), none in the else branch.
\* (the variant before it sends without the test)
sendAttemptsUnguarded(resolvedEmail) == 1
sendAttempts(resolvedEmail) == IF resolvedEmail # None THEN 1 ELSE 0

\* A work note is the sequence of its lines; a line is what it says and of
\* what, and whether it begins with the marker '[AUTO]'.
Line(marker, says, of) == [marker |-> marker, says |-> says, of |-> of]

\* resources.map(r => `  * ${r.label} (${r.type})`): one line per resource
resourceLines(resources) ==
    [i \in 1..Len(resources) |->
        Line(FALSE, "resource", <<resources[i].label, resources[i].type>>)]

\* writeAutomationWorkNote: the note's text (108-118)
automationWorkNote(topic, resources, emailSent, resolvedEmail) ==
    <<Line(TRUE, "Classified as", <<topic>>),
      IF emailSent /\ resolvedEmail # None
      THEN Line(FALSE, "Acknowledgement email sent to", resolvedEmail)
      ELSE IF emailSent
           THEN Line(FALSE, "Acknowledgement email sent to client.", <<>>)
           ELSE Line(FALSE, "Acknowledgement email not sent (no email provider configured).", <<>>),
      Line(FALSE, "", <<>>),
      Line(FALSE, "Recommended self-service resources:", <<>>)>>
    \o resourceLines(resources)

(***************************************************************************)
(* Incident intake (src/docsdesk/intake: createIncident and                *)
(* createClientIncident).                                                  *)
(***************************************************************************)
\* [detailedDescription, errorCode ? `Error Code: ...` : null,
\*  client ? `Client: ...` : null].filter(Boolean)
descriptionParts(payload) ==
    (IF payload.detailedDescription # None /\ payload.detailedDescription[1] # <<>>
     THEN <<payload.detailedDescription[1]>> ELSE <<>>)
    \o (IF payload.errorCode # None /\ payload.errorCode[1] # <<>>
        THEN <<<<"E", "r", "r", "o", "r", " ", "C", "o", "d", "e", ":", " ">>
               \o payload.errorCode[1]>>
        ELSE <<>>)
    \o (IF payload.client # <<>>
        THEN <<<<"C", "l", "i", "e", "n", "t", ":", " ">> \o payload.client>>
        ELSE <<>>)

\* Array.prototype.join
RECURSIVE join(_, _)
join(parts, sep) ==
    IF parts = <<>> THEN <<>>
    ELSE IF Len(parts) = 1 THEN parts[1]
    ELSE parts[1] \o sep \o join(Tail(parts), sep)

\* .join('\n\n') || undefined
descriptionOf(payload) ==
    LET text == join(descriptionParts(payload), <<"\n", "\n">>)
    IN  IF text = <<>> THEN None ELSE Some(text)

\* legacyPayload (102-113), additionalFields (116-127) and createIncident's
\* snPayload (36-44): the fields of the remote create call.  impact and
\* urgency are undefined.
snPayloadOf(payload, resolvedEmail) ==
    [short_description |-> payload.shortDescription,
     description |-> descriptionOf(payload),
     priority |-> payload.priority,
     category |-> payload.category,
     u_client |-> payload.client,
     u_source |-> "BBP Support Counter",
     contact_type |-> "self-service",
     u_client_email |-> resolvedEmail]

\* classifyAndRecommend({client, category, errorCode, shortDescription,
\*                       detailedDescription: payload.detailedDescription || ''})
enrichmentOf(payload) ==
    classifyAndRecommend(
        [category |-> payload.category,
         errorCode |-> payload.errorCode,
         shortDescription |-> payload.shortDescription,
         detailedDescription |->
            IF payload.detailedDescription = None THEN <<>>
            ELSE payload.detailedDescription[1]])

\* workNotesLines of the generic path (156-174)
genericWorkNote(enrichment, resolvedEmail) ==
    <<Line(TRUE, "Classified as", <<enrichment.topic>>)>>
    \o (IF resolvedEmail # None
        THEN <<Line(TRUE, "Sent acknowledgement and self-service resources to",
                    resolvedEmail)>>
        ELSE <<>>)
    \o (IF enrichment.recommendedResources # <<>>
        THEN <<Line(FALSE, "Recommended resources:", <<>>)>>
             \o resourceLines(enrichment.recommendedResources)
        ELSE <<>>)

(***************************************************************************)
(* Resolution (src/docsdesk/resolve: resolveIncident).                     *)
(***************************************************************************)
\* ['6', '7'].includes(String(incident.state))
\* (the variant before it forgets 7)
alreadyResolvedOnly6(state) == state = 6
alreadyResolved(state) == state \in {6, 7}

CLOSE_CODE == "Solution provided"
DEFAULT_CLOSE_NOTES == "Resolved via knowledge deflection."

\* const payload = { state: '6', close_code: ..., close_notes: resolutionNote ?? default }
\* (the variant before it always writes the default note)
resolvePayloadDefaultNote(resolutionNote) ==
    [state |-> 6,
     close_code |-> CLOSE_CODE,
     close_notes |-> DEFAULT_CLOSE_NOTES]
resolvePayload(resolutionNote) ==
    [state |-> 6,
     close_code |-> CLOSE_CODE,
     close_notes |-> IF resolutionNote = None THEN DEFAULT_CLOSE_NOTES
                     ELSE resolutionNote[1].value]

(***************************************************************************)
(* The remote platform's incident table, as the gateway sees it through    *)
(* the Table API: POST creates a record in state 1 (New) and returns it,   *)
(* GET with sys_id=<id> returns the matching records, PATCH changes the    *)
(* fields it is given (work_notes is a journal: a PATCH appends to it).    *)
(***************************************************************************)
NewTicket(fields) ==
    [state |-> 1,
     category |-> fields.category,
     description |-> fields.description,
     work_notes |-> <<>>,
     close_code |-> "",
     close_notes |-> ""]

\* A ticket that exists before the gateway's first request.
ExistingTicket(state) ==
    [state |-> state,
     category |-> "Other",
     description |-> Some(<<"C", "l", "i", "e", "n", "t", ":", " ", "A", "c", "m", "e">>),
     work_notes |-> <<>>,
     close_code |-> "",
     close_notes |-> ""]

\* PATCH /api/now/table/incident/<sys_id>: only the fields given change
PatchTicket(ticket, fields) ==
    [f \in DOMAIN ticket |->
        IF f \notin DOMAIN fields THEN ticket[f]
        ELSE IF f = "work_notes" THEN Append(ticket[f], fields[f])
        ELSE fields[f]]

\* DELETE /api/now/table/incident/<sys_id>: the record is gone, and a GET
\* by its sys_id finds nothing.
Gone ==
    [state |-> 0, category |-> "", description |-> None, work_notes |-> <<>>,
     close_code |-> "", close_notes |-> ""]

\* servicenowClient.patch: the HTTP method of an update
\* (the variant before it removes the record instead)
patchAsDelete == "DELETE"
patch == "PATCH"

\* What a write to an existing record leaves of it.
Written(method, ticket, fields) ==
    IF method = "DELETE" THEN Gone ELSE PatchTicket(ticket, fields)

\* The record a call returns to the gateway: the fields the pipeline reads.
RecordOf(sys_id, ticket) ==
    [sys_id |-> sys_id, state |-> ticket.state,
     close_code |-> ticket.close_code, close_notes |-> ticket.close_notes]

NoRecord == [sys_id |-> 0, state |-> 0, close_code |-> "", close_notes |-> ""]

(***************************************************************************)
(* Requests.  A slot holds one HTTP request from its arrival to its        *)
(* response; the sequential specification uses one slot.                   *)
(***************************************************************************)
Slots == {1, 2}

NoBody ==
    [client |-> <<>>, category |-> "", shortDescription |-> <<>>,
     detailedDescription |-> None, errorCode |-> None, priority |-> None,
     clientEmail |-> None, sys_id |-> 0, resolution_note |-> None]

NoResponse ==
    [status |-> 0, error |-> "", sys_id |-> 0, state |-> 0, topic |-> "",
     recommendedResources |-> <<>>, automation |-> None,
     alreadyResolved |-> FALSE, close_code |-> "", close_notes |-> ""]

NoOp == [method |-> "", sys_id |-> 0, fields |-> <<>>]

IdleRequest ==
    [kind |-> "none", id |-> 0, pc |-> "Idle", body |-> NoBody,
     resolvedEmail |-> None, call |-> NoCall, op |-> NoOp,
     result |-> <<>>, incident |-> NoRecord, emailSends |-> 0,
     automationResult |-> None, response |-> NoResponse]

\* errorHandler (src/index.ts, 62-74): res.status(500).json({error: ...})
errorHandlerStatus == 500

errorHandler(message) ==
    [NoResponse EXCEPT !.status = errorHandlerStatus, !.error = message]

\* res.status(400).json({ error: 'Invalid request payload', details: error })
\* (the variant before it lets the ZodError fall through to next(error))
badRequestFallsThrough ==
    [NoResponse EXCEPT !.status = errorHandlerStatus,
                       !.error = "Invalid request payload"]
badRequest ==
    [NoResponse EXCEPT !.status = 400, !.error = "Invalid request payload"]

\* The bodies of the create requests the model sends.
Categories ==
    {"Google Workspace - Account Access",
     "Google Workspace - Groups & Permissions", "Other"}
ShortDescriptions ==
    {<<>>, <<"b", "r", "o", "k", "e", "n", " ", "w", "i", "d", "g", "e", "t">>}
ClientEmails == {None, Some("user@example.com")}

CreateBodies ==
    {[NoBody EXCEPT !.client = <<"A", "c", "m", "e">>, !.category = c,
                    !.shortDescription = s, !.clientEmail = e] :
        c \in Categories, s \in ShortDescriptions, e \in ClientEmails}

ResolutionNotes ==
    {None, Some([type |-> "string", value |-> "Resolved via KB guidance"]),
     Some([type |-> "number", value |-> "42"])}

\* The states a ticket that exists at the start can be in.
ExistingStates == {1, 6, 7}

(***************************************************************************)
(* The activity feed: getAutomationActivity (src/docsdesk/activity.ts,     *)
(* 21-87).  An entry's incidentNumber is left out: it is copied from the   *)
(* incident and nothing reads it.  A timestamp is the time value that      *)
(* new Date(timestamp).getTime() gives.                                    *)
(***************************************************************************)
AUTO == <<"[", "A", "U", "T", "O", "]">>
CLIENT_LABEL == <<"C", "l", "i", "e", "n", "t", ":">>

\* \s of the regular expressions, and what String.prototype.trim removes
isSpace(c) == c \in {" ", "\n", "\t"}

\* String.prototype.startsWith
startsWith(s, p) == Len(s) >= Len(p) /\ SubSeq(s, 1, Len(p)) = p

\* the length of the run of whitespace that starts at s[p]
RECURSIVE spaceRun(_, _)
spaceRun(s, p) ==
    IF p <= Len(s) /\ isSpace(s[p]) THEN 1 + spaceRun(s, p + 1) ELSE 0

RECURSIVE trimEnd(_)
trimEnd(s) ==
    IF s # <<>> /\ isSpace(s[Len(s)]) THEN trimEnd(SubSeq(s, 1, Len(s) - 1))
    ELSE s

\* String.prototype.trim
trim(s) == trimEnd(SubSeq(s, 1 + spaceRun(s, 1), Len(s)))

\* String.prototype.split, on a one-character separator
RECURSIVE split(_, _)
split(s, sep) ==
    IF \E i \in 1..Len(s) : s[i] = sep
    THEN LET i == CHOOSE i \in 1..Len(s) :
                      s[i] = sep /\ \A j \in 1..(i - 1) : s[j] # sep
         IN  <<SubSeq(s, 1, i - 1)>> \o split(SubSeq(s, i + 1, Len(s)), sep)
    ELSE <<s>>

\* line.replace(/^\[AUTO\]\s*/, ''): anchored at the start of the line as
\* it is, not of the trimmed line
stripMarker(line) ==
    IF startsWith(line, AUTO)
    THEN SubSeq(line, Len(AUTO) + 1 + spaceRun(line, Len(AUTO) + 1), Len(line))
    ELSE line

\* line => line.trim().startsWith('[AUTO]')
\* (the variant before it accepts the marker anywhere in the line)
isAutoLineAnywhere(line) == includes(line, AUTO)
isAutoLine(line) == startsWith(trim(line), AUTO)

\* work_notes.split('\n').filter(...).map(line => line.replace(...).trim())
autoLines(work_notes) ==
    LET lines == SelectSeq(split(work_notes, "\n"), isAutoLine)
    IN  [i \in 1..Len(lines) |-> trim(stripMarker(lines[i]))]

\* /Client:\s*([^\n]+)/ with 'Client:' at d[i]: \s* is greedy and gives
\* back as much as leaves [^\n]+ one character that is not a newline, so the
\* capture starts after the longest such run of whitespace.
captureStarts(d, i) ==
    LET p == i + Len(CLIENT_LABEL)
    IN  {p + k : k \in {k \in 0..spaceRun(d, p) :
                            p + k <= Len(d) /\ d[p + k] # "\n"}}

matchesAt(d, i) ==
    /\ i + Len(CLIENT_LABEL) - 1 <= Len(d)
    /\ SubSeq(d, i, i + Len(CLIENT_LABEL) - 1) = CLIENT_LABEL
    /\ captureStarts(d, i) # {}

\* description.match(/Client:\s*([^\n]+)/): the leftmost match's group 1
clientMatch(d) ==
    IF \E i \in 1..Len(d) : matchesAt(d, i)
    THEN LET i == CHOOSE i \in 1..Len(d) :
                      matchesAt(d, i) /\ \A j \in 1..(i - 1) : ~matchesAt(d, j)
             s == CHOOSE s \in captureStarts(d, i) :
                      \A t \in captureStarts(d, i) : t <= s
             e == CHOOSE e \in s..Len(d) :
                      /\ \A j \in s..e : d[j] # "\n"
                      /\ e = Len(d) \/ d[e + 1] = "\n"
         IN  Some(SubSeq(d, s, e))
    ELSE None

\* let client = null; if (incident.description) { ... clientMatch[1].trim() }
clientOf(description) ==
    IF description = None \/ description = Some(<<>>) THEN None
    ELSE LET m == clientMatch(description[1])
         IN  IF m = None THEN None ELSE Some(trim(m[1]))

\* new Date(), read for the k-th time during one call: the clock may have
\* advanced after tickAfter reads (never, when tickAfter is 0)
NOW == 2
clockReading(tickAfter, k) ==
    IF tickAfter > 0 /\ k > tickAfter THEN NOW + 1 ELSE NOW

\* for (const summary of autoLines) if (summary) activities.push({...});
\* reads is how often the clock was read before this incident
entriesOf(incident, tickAfter, reads) ==
    LET summaries == SelectSeq(autoLines(incident.work_notes[1]),
                               LAMBDA summary : summary # <<>>)
    IN  [k \in 1..Len(summaries) |->
            [timestamp |-> IF incident.sys_updated_on # None
                           THEN incident.sys_updated_on[1]
                           ELSE clockReading(tickAfter, reads + k),
             client |-> clientOf(incident.description),
             summary |-> summaries[k],
             sys_id |-> incident.sys_id]]

\* for (const incident of result.result): if (!incident.work_notes) continue
RECURSIVE activitiesOf(_, _, _)
activitiesOf(incidents, tickAfter, reads) ==
    IF incidents = <<>> THEN <<>>
    ELSE LET incident == Head(incidents)
             entries ==
                IF incident.work_notes = None \/ incident.work_notes = Some(<<>>)
                THEN <<>>
                ELSE entriesOf(incident, tickAfter, reads)
             read == IF incident.sys_updated_on = None THEN Len(entries) ELSE 0
         IN  entries \o activitiesOf(Tail(incidents), tickAfter, reads + read)

\* (a, b) => timeB - timeA
\* (the variant before it is timeA - timeB)
compareAscending(a, b) == a.timestamp - b.timestamp
compare(a, b) == b.timestamp - a.timestamp

\* Array.prototype.sort is stable: an entry goes before the first one that
\* the comparator puts after it.
RECURSIVE insertSorted(_, _)
insertSorted(sorted, e) ==
    IF sorted = <<>> THEN <<e>>
    ELSE IF compare(Head(sorted), e) > 0 THEN <<e>> \o sorted
    ELSE <<Head(sorted)>> \o insertSorted(Tail(sorted), e)

RECURSIVE sort(_)
sort(entries) ==
    IF entries = <<>> THEN <<>>
    ELSE insertSorted(sort(SubSeq(entries, 1, Len(entries) - 1)),
                      entries[Len(entries)])

\* sysparm_query 'work_notesLIKE[AUTO]^descriptionLIKEClient:' with
\* sysparm_limit: the first limit incidents of the table that contain both
matchesQuery(incident) ==
    /\ incident.work_notes # None
    /\ includes(incident.work_notes[1], AUTO)
    /\ incident.description # None
    /\ includes(incident.description[1], CLIENT_LABEL)

queryResult(table, limit) ==
    LET matching == SelectSeq(table, matchesQuery)
    IN  SubSeq(matching, 1, IF Len(matching) < limit THEN Len(matching) ELSE limit)

\* The body of getAutomationActivity after the await: the loop, the sort
\* and return activities.
\* limit is not used after the query: the list is returned whole.
activities(incidents, limit, tickAfter) ==
    sort(activitiesOf(incidents, tickAfter, 0))

\* The incidents the activity specification draws the remote table from.
ActivityNotes ==
    {Some(<<"[", "A", "U", "T", "O", "]", " ", "C", "l", "a", "s", "s", "i", "f", "i", "e", "d", " ", "a", "s", " ", "'", "X", "'", "\n", "s", "o", "m", "e", " ", "o", "t", "h", "e", "r", " ", "l", "i", "n", "e", "\n", "[", "A", "U", "T", "O", "]", " ", "S", "t", "e", "p", " ", "t", "w", "o">>),
     Some(<<" ", " ", "[", "A", "U", "T", "O", "]", " ", "I", "n", "d", "e", "n", "t", "e", "d", "\n", " ", "[", "A", "U", "T", "O", "]">>),
     Some(<<"[", "A", "U", "T", "O", "]", " ", "\n", "[", "A", "U", "T", "O", "]", " ", "O", "n", "l", "y", " ", "o", "n", "e">>),
     Some(<<"s", "e", "e", " ", "[", "A", "U", "T", "O", "]", " ", "b", "e", "l", "o", "w">>),
     Some(<<"c", "a", "l", "l", "e", "d", " ", "t", "h", "e", " ", "c", "l", "i", "e", "n", "t">>)}
ActivityDescriptions ==
    {None,
     Some(<<"C", "l", "i", "e", "n", "t", ":", " ", "A", "c", "m", "e">>),
     Some(<<"N", "o", " ", "a", "c", "c", "e", "s", "s", "\n", "\n", "E", "r", "r", "o", "r", " ", "C", "o", "d", "e", ":", " ", "5", "0", "0", "\n", "\n", "C", "l", "i", "e", "n", "t", ":", " ", " ", "B", "e", "t", "a", " ", "C", "o", " ", "\n">>)}
ActivityTimes == {None, Some(1), Some(2)}

ActivityIncidents ==
    [work_notes : ActivityNotes, description : ActivityDescriptions,
     sys_updated_on : ActivityTimes]

\* tables of up to two incidents; an incident's sys_id is its place
ActivityTables ==
    {<<>>}
    \cup {<<[sys_id |-> 1] @@ a>> : a \in ActivityIncidents}
    \cup {<<[sys_id |-> 1] @@ a, [sys_id |-> 2] @@ b>> :
            a \in ActivityIncidents, b \in ActivityIncidents}

MaxLimit == 2

NoActivity ==
    [phase |-> "none", table |-> <<>>, limit |-> 0, tickAfter |-> 0,
     fetched |-> <<>>, result |-> <<>>]

(***************************************************************************)
(* The seed operation (src/seed/seed-docsdesk.ts, 259-385): seedKBArticles *)
(* and then seedIncidents, each a loop of an existence query and a create  *)
(* over a fixed list.  A record is reduced to its short_description, the   *)
(* only field the existence query reads.                                   *)
(***************************************************************************)
KB_ARTICLES ==
    <<"Rotate API keys for Product X",
      "OAuth callback errors (common causes & fixes)",
      "Webhook signature verification guide",
      "Retry/backoff pattern for 429 and 5xx">>

INCIDENTS ==
    <<"OAuth callback failing for Product X integration",
      "API key rotation needed for legacy integration",
      "Webhook signature verification failing",
      "Rate limiting issues with Product Y API",
      "Integration timeout after 30 seconds",
      "OAuth token refresh not working",
      "Webhook payload format changed",
      "API authentication credentials expired",
      "Integration dashboard showing incorrect metrics",
      "Bulk import failing for large datasets">>

\* The tables seed() fills, in the order it fills them.
SeedTables == <<"kb_knowledge", "incident">>

\* The items of a table's list that a run loops over.
seedList(table) ==
    LET list == IF table = "kb_knowledge" THEN KB_ARTICLES ELSE INCIDENTS
    IN  SubSeq(list, 1, IF Len(list) < MaxSeedItems THEN Len(list) ELSE MaxSeedItems)

\* getTable with short_description="<text>" and sysparm_limit 1:
\* result.result.length > 0
hasRecord(records, shortDescription) ==
    \E i \in 1..Len(records) : records[i] = shortDescription

\* What the existence check of an item comes to.  kbArticleExists catches
\* an error of the query and returns false (266-269), so the loop goes on
\* to the create; in seedIncidents the query is inside the loop's own try,
\* and an error skips the item (379-381).
afterCheck(table, records, shortDescription, raised) ==
    IF raised
    THEN IF table = "kb_knowledge" THEN "create" ELSE "failed"
    ELSE IF hasRecord(records, shortDescription) THEN "skipped" ELSE "create"

NoSeed ==
    [run |-> 0, table |-> 0, item |-> 0, pc |-> "none",
     records |-> [t \in {"kb_knowledge", "incident"} |-> <<>>],
     created |-> 0, skipped |-> 0]

\* continue / the end of the loop body: the next item, the next table, or
\* the end of seed().
nextItem(s) ==
    IF s.item < Len(seedList(SeedTables[s.table]))
    THEN [s EXCEPT !.item = s.item + 1, !.pc = "check"]
    ELSE IF s.table < Len(SeedTables)
         THEN [s EXCEPT !.table = s.table + 1, !.item = 1, !.pc = "check",
                        !.created = 0, !.skipped = 0]
         ELSE [s EXCEPT !.table = 0, !.item = 0, !.pc = "done",
                        !.created = 0, !.skipped = 0]

(***************************************************************************)
(* The client's name from the request to the listings: createClientIncident *)
(* writes it into the description of the create call (intake, 102-113),     *)
(* and listIncidents (intake, 276-286) and getAutomationActivity            *)
(* (activity.ts, 45-52) parse it back out of the stored description.        *)
(***************************************************************************)
\* listIncidents: let client = null; if (inc.description) { const
\* clientMatch = inc.description.match(/Client:\s*([^\n]+)/); if
\* (clientMatch) client = clientMatch[1].trim() }
listedClient(description) ==
    IF description = None \/ description = Some(<<>>) THEN None
    ELSE LET m == clientMatch(description[1])
         IN  IF m = None THEN None ELSE Some(trim(m[1]))

\* The payloads the intake specification sends.
IntakeClients == {<<"A", "c", "m", "e">>, <<"B", "e", "t", "a", " ", "C", "o">>}
IntakeDetails == {None, Some(<<"N", "o", " ", "a", "c", "c", "e", "s", "s">>), Some(<<"O", "l", "d", " ", "C", "l", "i", "e", "n", "t", ":", " ", "Z", "e", "d">>)}
IntakeErrorCodes == {None, Some(<<"5", "0", "0">>), Some(<<"C", "l", "i", "e", "n", "t", ":", "X">>)}
IntakePriorities == {None, Some("Low"), Some("Normal"), Some("High")}

IntakePayloads ==
    {[NoBody EXCEPT !.client = c, !.category = "Other",
                    !.shortDescription = <<"b", "r", "o", "k", "e", "n", " ", "w", "i", "d", "g", "e", "t">>,
                    !.detailedDescription = d, !.errorCode = e,
                    !.priority = p] :
        c \in IntakeClients, d \in IntakeDetails, e \in IntakeErrorCodes,
        p \in IntakePriorities}

NoIntake ==
    [phase |-> "none", payload |-> NoBody, sent |-> <<>>,
     description |-> None, listed |-> <<>>, activity |-> <<>>]

(***************************************************************************)
(* Listing: listIncidents (src/docsdesk/intake, 241-296) and the Table     *)
(* API's encoded query it sends.  A condition of sysparm_query is a        *)
(* record; the conditions joined by ^ are a sequence.                      *)
(***************************************************************************)
\* The values of an incident's state field: 1 New, 2 In Progress,
\* 3 On Hold, 4 Awaiting, 5 Resolved, 6 Closed (what the gateway writes
\* when it resolves), 7 Canceled.
LifecycleStates == 1..7

\* the number a state given in the query string stands for
stateNumber(label) ==
    CASE label = "1" -> 1 [] label = "2" -> 2 [] label = "3" -> 3
      [] label = "4" -> 4 [] label = "5" -> 5 [] label = "6" -> 6
      [] label = "7" -> 7 [] OTHER -> 0

Condition(field, op, number, text) ==
    [field |-> field, op |-> op, number |-> number, text |-> text]

\* sysparmQuery = 'state<6'; // States 1-5 are open/in-progress
\* (the variant before it has the limit inclusive)
openQueryUpTo6 == Condition("state", "<=", 6, <<>>)
openQuery == Condition("state", "<", 6, <<>>)

\* sysparmQuery = 'state=6'; // State 6 is resolved
resolvedQuery == Condition("state", "=", 6, <<>>)

\* const sourceFilter = 'descriptionLIKEClient:';
sourceFilter == Condition("description", "LIKE", 0, CLIENT_LABEL)

\* Build query string (250-266)
sysparmQueryOf(query, filterBySource) ==
    (IF query.state = "open" THEN <<openQuery>>
     ELSE IF query.state = "resolved" THEN <<resolvedQuery>>
     ELSE IF query.state # ""
          THEN <<Condition("state", "=", stateNumber(query.state), <<>>)>>
          ELSE <<>>)
    \o (IF filterBySource THEN <<sourceFilter>> ELSE <<>>)

\* The Table API evaluating one condition of an encoded query on a record.
conditionHolds(c, record) ==
    IF c.field = "state"
    THEN CASE c.op = "<" -> record.state < c.number
           [] c.op = "<=" -> record.state <= c.number
           [] OTHER -> record.state = c.number
    ELSE /\ record.description # None
         /\ includes(record.description[1], c.text)

selects(sysparmQuery, record) ==
    \A i \in 1..Len(sysparmQuery) : conditionHolds(sysparmQuery[i], record)

\* getTable with sysparm_query, sysparm_limit and sysparm_offset
tableResult(table, sysparmQuery, limit, offset) ==
    LET matching == SelectSeq(table, LAMBDA record : selects(sysparmQuery, record))
        last == IF Len(matching) < offset + limit THEN Len(matching)
                ELSE offset + limit
    IN  SubSeq(matching, offset + 1, last)

\* result.result.map(inc => ({ ...inc, client })) (276-286)
incidentsWithClient(result) ==
    [i \in 1..Len(result) |->
        [sys_id |-> result[i].sys_id, state |-> result[i].state,
         client |-> listedClient(result[i].description)]]

\* The tables the listing specification draws from: up to MaxListed
\* tickets, in any lifecycle state, with and without a client in the
\* description; a ticket's sys_id is its place.
MaxListed == 2

ListDescriptions ==
    {None, Some(<<"C", "l", "i", "e", "n", "t", ":", " ", "A", "c", "m", "e">>)}

ListTables ==
    UNION {[1..n -> [state : LifecycleStates, description : ListDescriptions]] :
            n \in 0..MaxListed}

\* The queries it sends: ListIncidentsQuerySchema gives state a default of
\* 'open', limit one of 20 and offset one of 0.
ListQueries ==
    [state : {"open", "resolved", "7", ""}, limit : {1, 20}, offset : {0, 1}]

NoListing ==
    [phase |-> "none", table |-> <<>>,
     query |-> [state |-> "", limit |-> 0, offset |-> 0],
     filterBySource |-> FALSE, sysparmQuery |-> <<>>, incidents |-> <<>>]

VARIABLES
    tickets,    \* the remote incident table: sys_id -> record
    req,        \* slot -> the request it holds
    served,     \* the number of requests received so far
    clientLog,  \* the remote client's methods called and how each ended
    rcall,      \* one operation of the remote client, on its own
    outcomes,   \* the outcomes its calls of fn() had, in order
    totalDelays, \* the delays it waited for, in order (milliseconds)
    crules,     \* the rule table a classification runs over
    cinput,     \* the input of one classification, on its own
    cresult,    \* its result, once classifyAndRecommend has run
    activity,   \* one call of getAutomationActivity, on its own
    seed,       \* the runs of the seed operation and the tables it fills
    intake,     \* one payload on its way to a ticket and back out of it
    listing     \* one call of listIncidents, on its own

mainVars == <<tickets, req, served, clientLog>>
retryVars == <<rcall, outcomes, totalDelays>>
classifyVars == <<crules, cinput, cresult>>
\* what the request handlers leave alone
activityVars == <<activity>>
seedVars == <<seed>>
intakeVars == <<intake, listing>>
auxVars == <<retryVars, classifyVars, activityVars, seedVars, intakeVars>>
vars == <<mainVars, retryVars, classifyVars, activityVars, seedVars, intakeVars>>

MainIdle ==
    /\ tickets = <<>>
    /\ req = [r \in Slots |-> IdleRequest]
    /\ served = 0
    /\ clientLog = <<>>

RetryIdle ==
    /\ rcall = NoCall
    /\ outcomes = <<>>
    /\ totalDelays = <<>>

ClassifyIdle ==
    /\ crules = <<>>
    /\ cinput = <<>>
    /\ cresult = None

ActivityIdle == activity = NoActivity

SeedIdle == seed = NoSeed

IntakeIdle == intake = NoIntake /\ listing = NoListing

(***************************************************************************)
(* The remote client (src/clients/servicenow): getTable, create and patch  *)
(* each run one HTTP call under withRetry.                                 *)
(***************************************************************************)
\* A method of the client is called: the wrapper starts with attempt 1.
StartCall(q, method, sys_id, fields) ==
    [q EXCEPT !.call = NewCall,
              !.op = [method |-> method, sys_id |-> sys_id, fields |-> fields],
              !.result = <<>>]

Called(q) ==
    [ev |-> "call", id |-> q.id, method |-> q.op.method,
     sys_id |-> q.op.sys_id, fields |-> DOMAIN q.op.fields, got |-> 0]

\* (got: the sys_id of the record the call returned, 0 when it returned none)
Settled(q, ev) ==
    [ev |-> ev, id |-> q.id, method |-> q.op.method,
     sys_id |-> q.op.sys_id, fields |-> DOMAIN q.op.fields,
     got |-> IF q.result = <<>> THEN 0 ELSE q.result[1].sys_id]

\* The outcomes the platform answers a call with in the request
\* specifications: a success, an error the wrapper throws at once and one
\* it retries.  (SpecRetry runs the wrapper over every status.)
RemoteStatuses == {200, 404, 500}

\* One HTTP call of the operation request r is in: the platform answers with
\* some status of the set given, and a 200 is the call taking effect.
ClientAttemptAmong(r, answers) ==
    /\ req[r].call.phase = "calling"
    /\ \E status \in answers :
        LET q == req[r]
            c == withRetryAttempt(q.call, status)
        IN
        \/ /\ ~IsSuccess(status)
           /\ req' = [req EXCEPT ![r].call = c]
           /\ UNCHANGED tickets
        \/ /\ IsSuccess(status)
           /\ q.op.method = "POST"
           /\ tickets' = Append(tickets, NewTicket(q.op.fields))
           \* the record echoed may come without a state (state 0 here)
           /\ \E echoed \in {RecordOf(Len(tickets) + 1, NewTicket(q.op.fields)),
                              [RecordOf(Len(tickets) + 1, NewTicket(q.op.fields))
                                  EXCEPT !.state = 0]} :
                req' = [req EXCEPT ![r].call = c, ![r].result = <<echoed>>]
        \/ /\ IsSuccess(status)
           /\ q.op.method = "GET"
           /\ req' = [req EXCEPT ![r].call = c,
                        ![r].result =
                            IF /\ q.op.sys_id \in DOMAIN tickets
                               /\ tickets[q.op.sys_id] # Gone
                            THEN <<RecordOf(q.op.sys_id, tickets[q.op.sys_id])>>
                            ELSE <<>>]
           /\ UNCHANGED tickets
        \/ /\ IsSuccess(status)
           /\ q.op.method \in {"PATCH", "DELETE"}
           /\ q.op.sys_id \in DOMAIN tickets
           /\ tickets' = [tickets EXCEPT ![q.op.sys_id] =
                                            Written(q.op.method, @, q.op.fields)]
           \* the record echoed may be the one before the change
           /\ \E echoed \in {tickets[q.op.sys_id], tickets'[q.op.sys_id]} :
                req' = [req EXCEPT ![r].call = c,
                          ![r].result = <<RecordOf(q.op.sys_id, echoed)>>]
    /\ UNCHANGED <<served, clientLog, auxVars>>

ClientAttempt(r) == ClientAttemptAmong(r, RemoteStatuses)

\* The backoff delay of request r's operation elapses.
ClientBackoff(r) ==
    /\ req[r].call.phase = "waiting"
    /\ req' = [req EXCEPT ![r].call = withRetryResume(@)]
    /\ UNCHANGED <<tickets, served, clientLog, auxVars>>

(***************************************************************************)
(* POST /incident (src/index.ts, 1476-1492) and createClientIncident.      *)
(***************************************************************************)
\* A create request arrives in a free slot.
ReceiveCreate(r) ==
    /\ req[r].pc \in {"Idle", "Rejected", "Failed", "ResponseAssembled", "Resolved"}
    /\ served < MaxRequests
    /\ \E body \in CreateBodies :
          req' = [req EXCEPT ![r] =
                    [IdleRequest EXCEPT !.kind = "create", !.id = served + 1,
                                        !.pc = "Received", !.body = body]]
    /\ served' = served + 1
    /\ UNCHANGED <<tickets, clientLog, auxVars>>

\* ClientIncidentCreateSchema.parse(req.body): a ZodError is answered with
\* 400; otherwise createClientIncident resolves the contact, builds the
\* fields and calls createIncident, which calls servicenowClient.create.
Validate(r) ==
    /\ req[r].kind = "create"
    /\ req[r].pc = "Received"
    /\ LET q == req[r] IN
       \/ /\ ~ClientIncidentCreateSchemaOk(q.body)
          /\ req' = [req EXCEPT ![r].pc = "Rejected", ![r].response = badRequest]
          /\ UNCHANGED clientLog
       \/ /\ ClientIncidentCreateSchemaOk(q.body)
          /\ LET email == resolveContactEmail(q.body)
                 started == StartCall([q EXCEPT !.pc = "Validated",
                                                !.resolvedEmail = email],
                                      "POST", 0, snPayloadOf(q.body, email))
             IN /\ req' = [req EXCEPT ![r] = started]
                /\ clientLog' = Append(clientLog, Called(started))
    /\ UNCHANGED <<tickets, served, auxVars>>

\* servicenowClient.create settles.  A rejection is rethrown by
\* createIncident's catch (throw error) and by createClientIncident, and
\* reaches the route's next(error), hence errorHandler; a result is the new
\* incident (return result.result).
\* (the variant before it has a catch that logs and does not rethrow)
afterCreateSwallows(q) ==
    IF q.call.phase = "raised"
    THEN [q EXCEPT !.pc = "TicketCreated", !.incident = NoRecord,
                   !.call = outcome(q.call)]
    ELSE [q EXCEPT !.pc = "TicketCreated", !.incident = q.result[1],
                   !.call = outcome(q.call)]
afterCreate(q) ==
    IF q.call.phase = "raised"
    THEN [q EXCEPT !.pc = "Failed", !.response = errorHandler("create failed"),
                   !.call = outcome(q.call)]
    ELSE [q EXCEPT !.pc = "TicketCreated", !.incident = q.result[1],
                   !.call = outcome(q.call)]

CreateSettled(r) ==
    /\ req[r].kind = "create"
    /\ req[r].pc = "Validated"
    /\ CallDone(req[r].call)
    /\ req' = [req EXCEPT ![r] = afterCreate(req[r])]
    /\ clientLog' = Append(clientLog, Settled(req[r], req[r].call.phase))
    /\ UNCHANGED <<tickets, served, auxVars>>

\* The body of the work-note update: { work_notes: fullNote } on the
\* generic path, { work_notes: workNote } in writeAutomationWorkNote.
\* (the variant before it sends the record's other fields along)
workNotePayloadFullRecord(note) ==
    [work_notes |-> note, state |-> 1, close_code |-> "", close_notes |-> ""]
workNotePayload(note) == [work_notes |-> note]

\* if (hasAutomation(payload.category)): the automation sends the
\* acknowledgement when an email was resolved and writes its work note;
\* otherwise the generic path classifies and writes the generic work note.
Dispatch(r) ==
    /\ req[r].kind = "create"
    /\ req[r].pc = "TicketCreated"
    /\ LET q == req[r] IN
       \/ /\ hasAutomation(q.body.category)
          /\ LET emailResult == emailResultOf(q.resolvedEmail)
                 note == automationWorkNote(AUTOMATION_TOPIC,
                            GOOGLE_WORKSPACE_ACCOUNT_ACCESS_RESOURCES,
                            emailResult.sent, q.resolvedEmail)
                 started == StartCall(
                    [q EXCEPT !.pc = "AutomationRun",
                              !.emailSends = sendAttempts(q.resolvedEmail),
                              !.automationResult =
                                 Some([classified |-> TRUE,
                                       topic |-> AUTOMATION_TOPIC,
                                       emailSent |-> emailResult.sent,
                                       emailProvider |-> emailResult.provider,
                                       workNoteAdded |-> FALSE,
                                       enrichment |->
                                          [topic |-> AUTOMATION_TOPIC,
                                           resources |-> GOOGLE_WORKSPACE_ACCOUNT_ACCESS_RESOURCES]])],
                    patch, q.incident.sys_id, workNotePayload(note))
             IN /\ req' = [req EXCEPT ![r] = started]
                /\ clientLog' = Append(clientLog, Called(started))
       \/ /\ ~hasAutomation(q.body.category)
          /\ LET note == genericWorkNote(enrichmentOf(q.body), q.resolvedEmail)
                 started == StartCall([q EXCEPT !.pc = "Classified"],
                                patch, q.incident.sys_id, workNotePayload(note))
             IN /\ req' = [req EXCEPT ![r] = started]
                /\ clientLog' = Append(clientLog, Called(started))
    /\ UNCHANGED <<tickets, served, auxVars>>

\* The work-note patch settles: a rejection is caught and logged on both
\* paths (writeAutomationWorkNote returns false; the generic path's catch
\* only warns), and workNoteAdded is whether the patch returned.
\* (the variant before it has no catch: the rejection reaches errorHandler)
afterAnnotationUncaught(q) ==
    IF q.call.phase = "raised"
    THEN [q EXCEPT !.pc = "Failed", !.response = errorHandler("patch failed"),
                   !.call = outcome(q.call), !.result = <<>>]
    ELSE [q EXCEPT !.pc = "AnnotationWritten",
            !.call = outcome(q.call), !.result = <<>>,
            !.automationResult =
                IF q.automationResult = None THEN None
                ELSE Some([q.automationResult[1] EXCEPT !.workNoteAdded = TRUE])]
\* (another variant goes back to write the note again after a rejection)
afterAnnotationAgain(q) ==
    IF q.call.phase = "raised"
    THEN [q EXCEPT !.pc = "TicketCreated", !.call = outcome(q.call),
                   !.result = <<>>]
    ELSE [q EXCEPT !.pc = "AnnotationWritten",
            !.call = outcome(q.call), !.result = <<>>,
            !.automationResult =
                IF q.automationResult = None THEN None
                ELSE Some([q.automationResult[1] EXCEPT !.workNoteAdded = TRUE])]
afterAnnotation(q) ==
    [q EXCEPT !.pc = "AnnotationWritten",
        !.call = outcome(q.call), !.result = <<>>,
        !.automationResult =
            IF q.automationResult = None THEN None
            ELSE Some([q.automationResult[1] EXCEPT
                        !.workNoteAdded = (q.call.phase = "returned")])]

AnnotationSettled(r) ==
    /\ req[r].kind = "create"
    /\ req[r].pc \in {"AutomationRun", "Classified"}
    /\ CallDone(req[r].call)
    /\ req' = [req EXCEPT ![r] = afterAnnotation(req[r])]
    /\ clientLog' = Append(clientLog, Settled(req[r], req[r].call.phase))
    /\ UNCHANGED <<tickets, served, auxVars>>

\* The enriched response (188-218), sent with res.status(201).
\* state: incident.state || '1'
\* (the variant before it has no default)
stateAsEchoed(incident) == incident.state
stateOrNew(incident) == IF incident.state # 0 THEN incident.state ELSE 1

\* const finalTopic = automationResult?.enrichment.topic || enrichment.topic
\* (the variant before it takes the classification's topic)
finalTopicClassified(auto, enrichment) == enrichment.topic
finalTopic(auto, enrichment) ==
    IF auto # None /\ auto[1].enrichment.topic # ""
    THEN auto[1].enrichment.topic ELSE enrichment.topic

clientIncidentResponse(q) ==
    LET enrichment == enrichmentOf(q.body)
        auto == q.automationResult
    IN  [NoResponse EXCEPT
            !.status = 201,
            !.sys_id = q.incident.sys_id,
            !.state = stateOrNew(q.incident),
            !.topic = finalTopic(auto, enrichment),
            !.recommendedResources =
                      IF auto # None THEN auto[1].enrichment.resources
                      ELSE enrichment.recommendedResources,
            !.automation =
                      IF auto # None
                      THEN Some([classified |-> auto[1].classified,
                                 emailSent |-> auto[1].emailSent,
                                 emailProvider |-> auto[1].emailProvider,
                                 workNoteAdded |-> auto[1].workNoteAdded])
                      ELSE None]

AssembleResponse(r) ==
    /\ req[r].kind = "create"
    /\ req[r].pc = "AnnotationWritten"
    /\ req' = [req EXCEPT ![r].pc = "ResponseAssembled",
                          ![r].response = clientIncidentResponse(req[r])]
    /\ UNCHANGED <<tickets, served, clientLog, auxVars>>

(***************************************************************************)
(* POST /incident/:sys_id/resolve (src/index.ts, 1547-1565) and            *)
(* resolveIncident.                                                        *)
(***************************************************************************)
\* The sys_id values the model sends: every ticket there is, and one that
\* matches no ticket.
ReceiveResolve(r) ==
    /\ req[r].pc \in {"Idle", "Rejected", "Failed", "ResponseAssembled", "Resolved"}
    /\ served < MaxRequests
    /\ \E sys_id \in 1..(Len(tickets) + 1), note \in ResolutionNotes :
          req' = [req EXCEPT ![r] =
                    [IdleRequest EXCEPT !.kind = "resolve", !.id = served + 1,
                        !.pc = "Received",
                        !.body = [NoBody EXCEPT !.sys_id = sys_id,
                                                !.resolution_note = note]]]
    /\ served' = served + 1
    /\ UNCHANGED <<tickets, clientLog, auxVars>>

\* ResolveRequestSchema.parse: a ZodError is answered with 400; otherwise
\* resolveIncident fetches the incident by sys_id (the idempotency guard).
ResolveValidate(r) ==
    /\ req[r].kind = "resolve"
    /\ req[r].pc = "Received"
    /\ LET q == req[r] IN
       \/ /\ ~ResolveRequestSchemaOk(q.body)
          /\ req' = [req EXCEPT ![r].pc = "Rejected", ![r].response = badRequest]
          /\ UNCHANGED clientLog
       \/ /\ ResolveRequestSchemaOk(q.body)
          /\ LET started == StartCall([q EXCEPT !.pc = "Fetching"],
                    "GET", q.body.sys_id,
                    [sysparm_fields |-> "sys_id,state,number,resolution_code,resolution_notes,resolved_at,close_code,close_notes",
                     sysparm_query |-> "sys_id="])
             IN /\ req' = [req EXCEPT ![r] = started]
                /\ clientLog' = Append(clientLog, Called(started))
    /\ UNCHANGED <<tickets, served, auxVars>>

\* The record resolveIncident returns for an incident already in 6 or 7:
\* { ...incident, alreadyResolved: true }, sent with res.json (status 200).
alreadyResolvedResponse(incident) ==
    [NoResponse EXCEPT !.status = 200, !.sys_id = incident.sys_id,
                       !.state = incident.state,
                       !.close_code = incident.close_code,
                       !.close_notes = incident.close_notes,
                       !.alreadyResolved = TRUE]

\* { ...result.result, state: '6' }
\* (the variant before it returns result.result as the platform echoed it)
resolvedResponseAsEchoed(record) ==
    [NoResponse EXCEPT !.status = 200, !.sys_id = record.sys_id,
                       !.state = record.state,
                       !.close_code = record.close_code,
                       !.close_notes = record.close_notes]
resolvedResponse(record) ==
    [NoResponse EXCEPT !.status = 200, !.sys_id = record.sys_id,
                       !.state = 6,
                       !.close_code = record.close_code,
                       !.close_notes = record.close_notes]

\* getTable settles (100-135): a rejection and 'not found' are both thrown
\* to the route's next(error); an incident in 6 or 7 is returned as it is;
\* any other is patched.
FetchSettled(r) ==
    /\ req[r].kind = "resolve"
    /\ req[r].pc = "Fetching"
    /\ LET q == req[r] IN
       \/ /\ q.call.phase = "raised"
          /\ req' = [req EXCEPT ![r].pc = "Failed",
                                ![r].call = outcome(q.call),
                                ![r].response = errorHandler("fetch failed")]
          /\ clientLog' = Append(clientLog, Settled(q, "raised"))
       \/ /\ q.call.phase = "returned"
          /\ q.result = <<>>
          /\ req' = [req EXCEPT ![r].pc = "Failed",
                                ![r].call = outcome(q.call),
                                ![r].response = errorHandler("Incident not found")]
          /\ clientLog' = Append(clientLog, Settled(q, "returned"))
       \/ /\ q.call.phase = "returned"
          /\ q.result # <<>>
          /\ alreadyResolved(q.result[1].state)
          /\ req' = [req EXCEPT ![r].pc = "Resolved",
                                ![r].call = outcome(q.call),
                                ![r].incident = q.result[1],
                                ![r].response = alreadyResolvedResponse(q.result[1])]
          /\ clientLog' = Append(clientLog, Settled(q, "returned"))
       \/ /\ q.call.phase = "returned"
          /\ q.result # <<>>
          /\ ~alreadyResolved(q.result[1].state)
          /\ LET started == StartCall([q EXCEPT !.pc = "Updating",
                                                !.incident = q.result[1]],
                                patch, q.body.sys_id,
                                resolvePayload(q.body.resolution_note))
             IN /\ req' = [req EXCEPT ![r] = started]
                /\ clientLog' = clientLog \o <<Settled(q, "returned"), Called(started)>>
    /\ UNCHANGED <<tickets, served, auxVars>>

\* servicenowClient.patch settles (135-150).
UpdateSettled(r) ==
    /\ req[r].kind = "resolve"
    /\ req[r].pc = "Updating"
    /\ LET q == req[r] IN
       \/ /\ q.call.phase = "raised"
          /\ req' = [req EXCEPT ![r].pc = "Failed",
                                ![r].call = outcome(q.call),
                                ![r].response = errorHandler("update failed")]
          /\ clientLog' = Append(clientLog, Settled(q, "raised"))
       \/ /\ q.call.phase = "returned"
          /\ req' = [req EXCEPT ![r].pc = "Resolved",
                                ![r].call = outcome(q.call),
                                ![r].response = resolvedResponse(q.result[1])]
          /\ clientLog' = Append(clientLog, Settled(q, "returned"))
    /\ UNCHANGED <<tickets, served, auxVars>>

(***************************************************************************)
(* Specifications.                                                         *)
(***************************************************************************)
\* One request after the other, on a table that holds one ticket already.
Init ==
    /\ \E s \in ExistingStates : tickets = <<ExistingTicket(s)>>
    /\ req = [r \in Slots |-> IdleRequest]
    /\ served = 0
    /\ clientLog = <<>>
    /\ RetryIdle
    /\ ClassifyIdle
    /\ ActivityIdle
    /\ SeedIdle
    /\ IntakeIdle

Step(r) ==
    \/ ReceiveCreate(r)
    \/ Validate(r)
    \/ CreateSettled(r)
    \/ Dispatch(r)
    \/ AnnotationSettled(r)
    \/ AssembleResponse(r)
    \/ ReceiveResolve(r)
    \/ ResolveValidate(r)
    \/ FetchSettled(r)
    \/ UpdateSettled(r)
    \/ ClientAttempt(r)
    \/ ClientBackoff(r)

Next == Step(1)

Spec == Init /\ [][Next]_vars

\* One operation of the remote client on its own, with the outcomes of its
\* calls recorded.
RetryInit ==
    /\ MainIdle
    /\ ClassifyIdle
    /\ ActivityIdle
    /\ SeedIdle
    /\ IntakeIdle
    /\ rcall = NewCall
    /\ outcomes = <<>>
    /\ totalDelays = <<>>

\* fn() is called and settles with some outcome; when the catch block goes
\* on to wait, it computes the delay from attempt and Math.random().
RetryAttempt ==
    /\ rcall.phase = "calling"
    /\ \E status \in Statuses :
          /\ rcall' = withRetryAttempt(rcall, status)
          /\ outcomes' = Append(outcomes, status)
          /\ IF withRetryAttempt(rcall, status).phase = "waiting"
             THEN \E random \in RandomTenths :
                    totalDelays' = Append(totalDelays,
                                          totalDelay(rcall.attempt, random))
             ELSE UNCHANGED totalDelays
    /\ UNCHANGED <<mainVars, classifyVars, activityVars, seedVars, intakeVars>>

\* The backoff delay elapses.
RetrySleep ==
    /\ rcall.phase = "waiting"
    /\ rcall' = withRetryResume(rcall)
    /\ UNCHANGED <<outcomes, totalDelays, mainVars, classifyVars, activityVars,
                   seedVars, intakeVars>>

RetryNext == RetryAttempt \/ RetrySleep

SpecRetry == RetryInit /\ [][RetryNext]_vars

\* One classification on its own: a rule table, an input, and the result.
ClassifyCategories ==
    {CLASSIFICATION_RULES[i].category : i \in 1..Len(CLASSIFICATION_RULES)}
    \cup {"Unknown"}

ClassifyShortTexts ==
    {<<>>,
     <<"b", "r", "o", "k", "e", "n", " ", "w", "i", "d", "g", "e", "t">>,
     <<"C", "a", "n", "n", "o", "t", " ", "L", "O", "G", "I", "N">>,
     <<"W", "o", "r", "k", "f", "l", "o", "w", " ", "e", "r", "r", "o", "r">>}

ClassifyLongTexts ==
    {<<>>,
     <<"d", "e", "a", "l", " ", "s", "t", "a", "g", "e", " ", "s", "t", "u", "c", "k">>,
     <<"A", "P", "I", " ", "t", "i", "m", "e", "o", "u", "t">>}

ClassifyErrorCodes ==
    {None, Some(<<>>), Some(<<"E", "4", "2">>), Some(<<"h", "s", "-", "w", "f", "-", "1">>)}

ClassifyInputs ==
    [category : ClassifyCategories, shortDescription : ClassifyShortTexts,
     detailedDescription : ClassifyLongTexts, errorCode : ClassifyErrorCodes]

\* A second table, to run the engine on rule orders and predicates the
\* shipped table does not have: a fallback declared before specific rules,
\* overlapping keywords, and a category whose only rule has predicates.
PROBE_RULES == <<
    [category |-> "Other", matchKeywords |-> None, matchErrorCodes |-> None,
     topic |-> "Probe General",
     resources |-> <<[type |-> "doc", label |-> "Probe General Help"]>>],
    [category |-> "Other",
     matchKeywords |-> Some(<<<<"w", "i", "d", "g", "e", "t">>>>),
     matchErrorCodes |-> None,
     topic |-> "Probe Widget",
     resources |-> <<[type |-> "doc", label |-> "Probe Widget Help"]>>],
    [category |-> "Other",
     matchKeywords |-> Some(<<<<"b", "r", "o", "k", "e", "n">>>>),
     matchErrorCodes |-> None,
     topic |-> "Probe Broken",
     resources |-> <<[type |-> "video", label |-> "Probe Broken Help"]>>],
    [category |-> "HubSpot - Lifecycle & Automation",
     matchKeywords |-> Some(<<<<"W", "o", "r", "k", "f", "l", "o", "w">>>>),
     matchErrorCodes |-> Some(<<<<"H", "S", "-", "W", "F">>>>),
     topic |-> "Probe Workflow",
     resources |-> <<>>]
>>

RuleTables == {CLASSIFICATION_RULES, PROBE_RULES}

ClassifyInit ==
    /\ MainIdle
    /\ RetryIdle
    /\ ActivityIdle
    /\ SeedIdle
    /\ IntakeIdle
    /\ crules \in RuleTables
    /\ cinput \in ClassifyInputs
    /\ cresult = None

\* classifyAndRecommend runs on the input.
Classify ==
    /\ cresult = None
    /\ cresult' = Some(classifyWith(crules, cinput))
    /\ UNCHANGED <<crules, cinput, mainVars, retryVars, activityVars, seedVars, intakeVars>>

ClassifyNext == Classify

SpecClassify == ClassifyInit /\ [][ClassifyNext]_vars

(***************************************************************************)
(* getAutomationActivity on its own: one call, over a remote table.        *)
(***************************************************************************)
ActivityInit ==
    /\ MainIdle
    /\ RetryIdle
    /\ ClassifyIdle
    /\ SeedIdle
    /\ IntakeIdle
    /\ \E table \in ActivityTables, limit \in 1..MaxLimit, tickAfter \in 0..1 :
          activity = [NoActivity EXCEPT !.phase = "called", !.table = table,
                                        !.limit = limit, !.tickAfter = tickAfter]

\* servicenowClient.getTable settles: with the query's result, or with an
\* error, which the catch logs and throws again.
ActivityFetch ==
    /\ activity.phase = "called"
    /\ \/ activity' = [activity EXCEPT !.phase = "fetched",
                          !.fetched = queryResult(activity.table, activity.limit)]
       \/ activity' = [activity EXCEPT !.phase = "raised"]
    /\ UNCHANGED <<mainVars, retryVars, classifyVars, seedVars, intakeVars>>

\* The loop over the incidents, the sort and the return.
ActivityReturn ==
    /\ activity.phase = "fetched"
    /\ activity' = [activity EXCEPT !.phase = "returned",
                      !.result = activities(activity.fetched, activity.limit,
                                            activity.tickAfter)]
    /\ UNCHANGED <<mainVars, retryVars, classifyVars, seedVars, intakeVars>>

ActivityNext == ActivityFetch \/ ActivityReturn

SpecActivity == ActivityInit /\ [][ActivityNext]_vars

(***************************************************************************)
(* The seed operation, run again and again on tables that start empty.     *)
(***************************************************************************)
SeedInit ==
    /\ MainIdle
    /\ RetryIdle
    /\ ClassifyIdle
    /\ ActivityIdle
    /\ IntakeIdle
    /\ seed = [NoSeed EXCEPT !.run = 1, !.table = 1, !.item = 1, !.pc = "check"]

\* The existence query of the item settles, with its result or an error.
SeedCheck ==
    /\ seed.pc = "check"
    /\ LET table == SeedTables[seed.table]
           text == seedList(table)[seed.item]
       IN  \E raised \in BOOLEAN :
              LET then == afterCheck(table, seed.records[table], text, raised)
              IN  seed' = IF then = "create"
                          THEN [seed EXCEPT !.pc = "create"]
                          ELSE IF then = "skipped"
                               THEN nextItem([seed EXCEPT !.skipped = seed.skipped + 1])
                               ELSE nextItem(seed)
    /\ UNCHANGED <<mainVars, retryVars, classifyVars, activityVars, intakeVars>>

\* servicenowClient.create of the item settles: the record is in the table
\* and created++, or the loop's catch logs the error.
SeedCreate ==
    /\ seed.pc = "create"
    /\ LET table == SeedTables[seed.table]
           text == seedList(table)[seed.item]
       IN  \/ seed' = nextItem([seed EXCEPT
                          !.records[table] = Append(seed.records[table], text),
                          !.created = seed.created + 1])
           \/ seed' = nextItem(seed)
    /\ UNCHANGED <<mainVars, retryVars, classifyVars, activityVars, intakeVars>>

\* seed() is run again.
SeedAgain ==
    /\ seed.pc = "done"
    /\ seed.run < MaxSeedRuns
    /\ seed' = [seed EXCEPT !.run = seed.run + 1, !.table = 1, !.item = 1,
                            !.pc = "check"]
    /\ UNCHANGED <<mainVars, retryVars, classifyVars, activityVars, intakeVars>>

SeedNext == SeedCheck \/ SeedCreate \/ SeedAgain

SpecSeed == SeedInit /\ [][SeedNext]_vars

(***************************************************************************)
(* One payload through the create call, and the ticket it makes through    *)
(* the listing and the activity feed.                                      *)
(***************************************************************************)
IntakeInit ==
    /\ MainIdle
    /\ RetryIdle
    /\ ClassifyIdle
    /\ ActivityIdle
    /\ SeedIdle
    /\ listing = NoListing
    /\ \E payload \in IntakePayloads :
          intake = [NoIntake EXCEPT !.phase = "received", !.payload = payload]

\* createClientIncident up to the create call: the fields sent, and the
\* description the new ticket is stored with.
IntakeCreate ==
    /\ intake.phase = "received"
    /\ LET sent == snPayloadOf(intake.payload, resolveContactEmail(intake.payload))
       IN  intake' = [intake EXCEPT !.phase = "created", !.sent = <<sent>>,
                                    !.description = sent.description]
    /\ UNCHANGED <<listing, mainVars, retryVars, classifyVars, activityVars, seedVars>>

\* listIncidents returns the ticket, with the client parsed from it.
IntakeList ==
    /\ intake.phase = "created"
    /\ intake.listed = <<>>
    /\ intake' = [intake EXCEPT !.listed = <<listedClient(intake.description)>>]
    /\ UNCHANGED <<listing, mainVars, retryVars, classifyVars, activityVars, seedVars>>

\* getAutomationActivity parses the client of the ticket's entries.
IntakeActivity ==
    /\ intake.phase = "created"
    /\ intake.activity = <<>>
    /\ intake' = [intake EXCEPT !.activity = <<clientOf(intake.description)>>]
    /\ UNCHANGED <<listing, mainVars, retryVars, classifyVars, activityVars, seedVars>>

IntakeNext == IntakeCreate \/ IntakeList \/ IntakeActivity

SpecIntake == IntakeInit /\ [][IntakeNext]_vars

\* Requests in flight together.  Express runs each request's handler as its
\* own chain of awaits on one event loop: a handler runs until its next
\* await, and any handler whose awaited promise has settled may run next.
\* await new Promise(resolve => setTimeout(resolve, totalDelay)) suspends
\* the call chain that awaits it, and no other.
\* (the variant before it is a sleep that holds the whole thread)
sleepHoldsThread(rq, r) == \E s \in Slots \ {r} : rq[s].call.phase = "waiting"
sleepHolds(rq, r) == FALSE

\* The bodies of the create requests sent together: one the automation
\* handles and one on the generic path.
ConcurrentBodies ==
    {[NoBody EXCEPT !.client = <<"A", "c", "m", "e">>,
                    !.category = "Google Workspace - Account Access",
                    !.shortDescription = <<"l", "o", "c", "k", "e", "d">>,
                    !.clientEmail = Some("user@example.com")],
     [NoBody EXCEPT !.client = <<"A", "c", "m", "e">>,
                    !.category = "Other",
                    !.shortDescription = <<"l", "o", "c", "k", "e", "d">>]}

\* The ticket the resolve requests sent together are for: the open ticket
\* the table holds at the start.
ConcurrentTicket == 1

\* How often the platform answers one operation with an error the wrapper
\* retries, when requests are in flight together: after that many backoff
\* delays the operation's next call succeeds or fails for good.
MaxConcurrentRetries == 1

ConcurrentStatuses(c) ==
    IF c.attempt > MaxConcurrentRetries
    THEN {status \in RemoteStatuses : IsSuccess(status) \/ ThrowsAs4xx(status)}
    ELSE RemoteStatuses

\* A create request arrives while the requests before it may be anywhere
\* in their pipelines.  Slots are taken in order (the slots are
\* interchangeable), so a request's id is its slot.
ArriveCreate(r) ==
    /\ req[r].pc = "Idle"
    /\ r = served + 1
    /\ \E body \in ConcurrentBodies :
          req' = [req EXCEPT ![r] =
                    [IdleRequest EXCEPT !.kind = "create", !.id = served + 1,
                                        !.pc = "Received", !.body = body]]
    /\ served' = served + 1
    /\ UNCHANGED <<tickets, clientLog, auxVars>>

\* A resolve request arrives, for the open ticket.
ArriveResolve(r) ==
    /\ req[r].pc = "Idle"
    /\ r = served + 1
    /\ req' = [req EXCEPT ![r] =
                [IdleRequest EXCEPT !.kind = "resolve", !.id = served + 1,
                    !.pc = "Received",
                    !.body = [NoBody EXCEPT !.sys_id = ConcurrentTicket]]]
    /\ served' = served + 1
    /\ UNCHANGED <<tickets, clientLog, auxVars>>

\* One request in each slot, on a table that holds one open ticket.
ConcurrentInit ==
    /\ tickets = <<ExistingTicket(1)>>
    /\ req = [r \in Slots |-> IdleRequest]
    /\ served = 0
    /\ clientLog = <<>>
    /\ RetryIdle
    /\ ClassifyIdle
    /\ ActivityIdle
    /\ SeedIdle
    /\ IntakeIdle

\* The request in slot r can run: nothing holds the thread it runs on.
Runs(r) == ~sleepHolds(req, r)

\* The next step of the request in slot r.
ConcurrentStep(r) ==
    \/ Runs(r) /\ ArriveCreate(r)
    \/ Runs(r) /\ ArriveResolve(r)
    \/ Runs(r) /\ Validate(r)
    \/ Runs(r) /\ CreateSettled(r)
    \/ Runs(r) /\ Dispatch(r)
    \/ Runs(r) /\ AnnotationSettled(r)
    \/ Runs(r) /\ AssembleResponse(r)
    \/ Runs(r) /\ ResolveValidate(r)
    \/ Runs(r) /\ FetchSettled(r)
    \/ Runs(r) /\ UpdateSettled(r)
    \/ Runs(r) /\ ClientAttemptAmong(r, ConcurrentStatuses(req[r].call))
    \/ Runs(r) /\ ClientBackoff(r)

ConcurrentNext == \E r \in Slots : ConcurrentStep(r)

SpecConcurrent == ConcurrentInit /\ [][ConcurrentNext]_vars

\* One request from its arrival to its response under fair scheduling: the
\* event loop runs a handler whose awaited promise has settled, a timer
\* that was set fires, and every call of the platform is answered, with
\* any of the statuses.
FairNext ==
    \/ ArriveCreate(1)
    \/ ArriveResolve(1)
    \/ Validate(1)
    \/ CreateSettled(1)
    \/ Dispatch(1)
    \/ AnnotationSettled(1)
    \/ AssembleResponse(1)
    \/ ResolveValidate(1)
    \/ FetchSettled(1)
    \/ UpdateSettled(1)
    \/ ClientAttempt(1)
    \/ ClientBackoff(1)

SpecFair == ConcurrentInit /\ [][FairNext]_vars /\ WF_vars(FairNext)

\* One call of listIncidents on its own, on a table of tickets.
ListInit ==
    /\ MainIdle
    /\ RetryIdle
    /\ ClassifyIdle
    /\ ActivityIdle
    /\ SeedIdle
    /\ intake = NoIntake
    /\ \E table \in ListTables, query \in ListQueries, filterBySource \in BOOLEAN :
          listing = [NoListing EXCEPT
                        !.phase = "called",
                        !.table = [i \in 1..Len(table) |->
                                      [sys_id |-> i, state |-> table[i].state,
                                       description |-> table[i].description]],
                        !.query = query, !.filterBySource = filterBySource]

\* listIncidents up to its await: the query is built and getTable called.
ListQuery ==
    /\ listing.phase = "called"
    /\ listing' = [listing EXCEPT
                      !.phase = "fetching",
                      !.sysparmQuery = sysparmQueryOf(listing.query,
                                                      listing.filterBySource)]
    /\ UNCHANGED <<intake, mainVars, retryVars, classifyVars, activityVars, seedVars>>

\* getTable returns the selected records and listIncidents returns them
\* with the client parsed from each description.
ListReturn ==
    /\ listing.phase = "fetching"
    /\ listing' = [listing EXCEPT
                      !.phase = "returned",
                      !.incidents =
                          incidentsWithClient(
                              tableResult(listing.table, listing.sysparmQuery,
                                          listing.query.limit,
                                          listing.query.offset))]
    /\ UNCHANGED <<intake, mainVars, retryVars, classifyVars, activityVars, seedVars>>

\* getTable rejects: the catch logs and rethrows.
ListThrow ==
    /\ listing.phase = "fetching"
    /\ listing' = [listing EXCEPT !.phase = "raised"]
    /\ UNCHANGED <<intake, mainVars, retryVars, classifyVars, activityVars, seedVars>>

ListNext == ListQuery \/ ListReturn \/ ListThrow

SpecList == ListInit /\ [][ListNext]_vars

(***************************************************************************)
(* Properties.                                                             *)
(***************************************************************************)
\* how often request id called the client's method
CallsOf(id, method) ==
    Len(SelectSeq(clientLog,
            LAMBDA e : e.ev = "call" /\ e.id = id /\ e.method = method))

\* every call of the client by request id
AllCallsOf(id) ==
    Len(SelectSeq(clientLog, LAMBDA e : e.ev = "call" /\ e.id = id))

\* request id's call of method ended with ev ("returned" or "raised")
Ended(id, method, ev) ==
    \E i \in 1..Len(clientLog) :
        /\ clientLog[i].ev = ev
        /\ clientLog[i].id = id
        /\ clientLog[i].method = method

\* a patch that sets the lifecycle state
IsStateUpdate(e) == e.method = "PATCH" /\ "state" \in e.fields

\* C1: an operation of the remote client makes at most maxAttempts (5)
\* calls; after the 5th failed call it raises that call's error and neither
\* delays nor calls again.
C1_AttemptsBounded ==
    /\ rcall.calls <= maxAttempts
    /\ Len(outcomes) <= maxAttempts
    /\ rcall.phase # "none" => rcall.calls = Len(outcomes)
    /\ (Len(outcomes) = maxAttempts /\ ~IsSuccess(outcomes[maxAttempts])) =>
          /\ rcall.phase = "raised"
          /\ rcall.lastError = outcomes[maxAttempts]
          /\ rcall.delays = maxAttempts - 1

C1_Witness ==
    /\ outcomes = <<500, 500, 500, 500, 500>>
    /\ rcall.phase = "raised"
    /\ rcall.calls = 5

\* a 4xx status other than 429
IsTerminal4xx(status) == status >= 400 /\ status < 500 /\ status # 429

\* C2: a call that ends with a 4xx status other than 429 is the operation's
\* last: the operation raises that error, with no delay and no call after
\* it; as the first outcome this is exactly 1 call and zero delays.
C2_Terminal4xxNotRetried ==
    \A i \in 1..Len(outcomes) :
        IsTerminal4xx(outcomes[i]) =>
            /\ i = Len(outcomes)
            /\ rcall.phase = "raised"
            /\ rcall.lastError = outcomes[i]
            /\ rcall.calls = i
            /\ rcall.delays = i - 1

C2_Witness ==
    /\ outcomes = <<404>>
    /\ rcall.phase = "raised"
    /\ rcall.calls = 1
    /\ rcall.delays = 0

\* C3: an operation never raises on a 429 or 5xx outcome of an attempt
\* below maxAttempts (a delay and another attempt follow), and after the
\* outcomes 429, 429, 200 it has returned with 3 calls and 2 delays.
C3_RetryableIsRetried ==
    /\ \A i \in 1..Len(outcomes) :
          (IsRetryableStatus(outcomes[i]) /\ i < maxAttempts) =>
              (i < Len(outcomes) \/ rcall.phase \in {"waiting", "calling"})
    /\ (Len(outcomes) >= 1 /\ outcomes[1] = 429) => rcall.phase # "raised"
    /\ outcomes = <<429, 429, 200>> =>
          (rcall.phase = "returned" /\ rcall.calls = 3 /\ rcall.delays = 2)

\* C4: resolve updates a ticket only when the state it fetched is neither 6
\* nor 7, and at most once; a ticket fetched in 6 or 7 is answered as it
\* was fetched, with alreadyResolved, and without an update.  Once a
\* resolve update of a ticket has returned, no later request updates that
\* ticket's state again, and a later resolve of it answers alreadyResolved.
C4_ResolveIdempotent ==
    /\ \A r \in Slots :
          req[r].kind = "resolve" =>
            LET q == req[r] IN
            /\ CallsOf(q.id, "PATCH") <= 1
            /\ CallsOf(q.id, "PATCH") > 0 =>
                  /\ q.incident.sys_id = q.body.sys_id
                  /\ q.incident.state \notin {6, 7}
            /\ (q.incident.sys_id # 0 /\ q.incident.state \in {6, 7}) =>
                  /\ CallsOf(q.id, "PATCH") = 0
                  /\ q.pc = "Resolved"
                  /\ q.response.status = 200
                  /\ q.response.alreadyResolved
                  /\ q.response.state = q.incident.state
                  /\ q.response.close_code = q.incident.close_code
                  /\ q.response.close_notes = q.incident.close_notes
            /\ (q.pc = "Resolved"
                /\ \E i \in 1..Len(clientLog) :
                      /\ IsStateUpdate(clientLog[i])
                      /\ clientLog[i].ev = "returned"
                      /\ clientLog[i].sys_id = q.body.sys_id
                      /\ clientLog[i].id # q.id) =>
                  q.response.alreadyResolved
    /\ \A i, j \in 1..Len(clientLog) :
          (/\ i < j
           /\ IsStateUpdate(clientLog[i]) /\ clientLog[i].ev = "returned"
           /\ IsStateUpdate(clientLog[j]) /\ clientLog[j].ev = "call") =>
              clientLog[j].sys_id # clientLog[i].sys_id

\* the second of two resolves of a ticket that was open, after the first
\* one's update returned
C4_Witness ==
    /\ req[1].kind = "resolve" /\ req[1].id = 2 /\ req[1].pc = "Resolved"
    /\ req[1].response.alreadyResolved
    /\ req[1].body.sys_id = 1
    /\ CallsOf(1, "PATCH") = 1 /\ CallsOf(2, "PATCH") = 0
    /\ \E i \in 1..Len(clientLog) :
          /\ IsStateUpdate(clientLog[i]) /\ clientLog[i].ev = "returned"
          /\ clientLog[i].id = 1 /\ clientLog[i].sys_id = 1
    /\ tickets[1].state = 6

\* C5: a resolve of an id that matches no ticket is answered with a 4xx
\* status, and without an update.
C5_UnknownIdIsClientError ==
    \A r \in Slots :
        (/\ req[r].kind = "resolve"
         /\ Ended(req[r].id, "GET", "returned")
         /\ req[r].body.sys_id \notin DOMAIN tickets) =>
            /\ CallsOf(req[r].id, "PATCH") = 0
            /\ req[r].response.status >= 400
            /\ req[r].response.status < 500

\* a create request that has been through validation
Validated(q) == q.kind = "create" /\ q.pc # "Received"

\* C6: a create request whose body fails validation is answered 400 and
\* calls the remote client not once.
C6_InvalidCreateRejected ==
    \A r \in Slots :
        (Validated(req[r]) /\ ~ClientIncidentCreateSchemaOk(req[r].body)) =>
            /\ req[r].pc = "Rejected"
            /\ req[r].response.status = 400
            /\ AllCallsOf(req[r].id) = 0
            /\ req[r].call = NoCall

C6_Witness ==
    /\ req[1].kind = "create"
    /\ req[1].body.shortDescription = <<>>
    /\ req[1].pc = "Rejected"
    /\ req[1].response.status = 400

\* C7: when the remote create of a create request has raised, the request
\* ends with status 500: no automation has run, no update was called, and
\* the response holds no ticket id, topic or resources.
C7_FailedCreateIsServerError ==
    \A r \in Slots :
        (req[r].kind = "create" /\ Ended(req[r].id, "POST", "raised")) =>
            LET q == req[r] IN
            /\ q.pc = "Failed"
            /\ q.response.status = 500
            /\ q.response.sys_id = 0
            /\ q.response.topic = ""
            /\ q.response.recommendedResources = <<>>
            /\ q.response.automation = None
            /\ q.automationResult = None
            /\ q.emailSends = 0
            /\ CallsOf(q.id, "PATCH") = 0

\* the create raised after the retries were exhausted
C7_Witness ==
    /\ req[1].kind = "create" /\ req[1].pc = "Failed"
    /\ Ended(req[1].id, "POST", "raised")
    /\ req[1].call.lastError = 500
    /\ req[1].response.status = 500

\* C8: when the work-note update of a create request has raised, the
\* request still goes on to its response, and the response of every create
\* request whose ticket was created is 201 with the ticket's id, a topic
\* and the resources, on both paths.
C8_AnnotationFailureNotFatal ==
    \A r \in Slots :
        req[r].kind = "create" =>
            LET q == req[r] IN
            /\ Ended(q.id, "PATCH", "raised") =>
                  q.pc \in {"AnnotationWritten", "ResponseAssembled"}
            /\ (Ended(q.id, "POST", "returned") /\ q.response.status # 0) =>
                  /\ q.pc = "ResponseAssembled"
                  /\ q.response.status = 201
                  /\ q.response.sys_id = q.incident.sys_id
                  /\ q.response.sys_id \in DOMAIN tickets
                  /\ q.response.topic # ""
                  /\ q.response.recommendedResources # <<>>

\* two create requests, the first on the generic path and the second on the
\* automation path: the update of each raised, and the second is answered
C8_Witness ==
    /\ Ended(1, "POST", "returned") /\ Ended(1, "PATCH", "raised")
    /\ tickets[2].category = "Other"
    /\ req[1].kind = "create" /\ req[1].id = 2
    /\ req[1].body.category = "Google Workspace - Account Access"
    /\ Ended(2, "PATCH", "raised")
    /\ req[1].pc = "ResponseAssembled"
    /\ req[1].response.status = 201
    /\ req[1].response.automation # None

\* a create request past the dispatch
Dispatched(q) ==
    /\ q.kind = "create"
    /\ q.pc \in {"AutomationRun", "Classified", "AnnotationWritten",
                 "ResponseAssembled"}

\* C9: a create request runs the automation exactly when its category is
\* 'Google Workspace - Account Access', the one category hasAutomation
\* accepts; its response holds an automation object, with classified true,
\* exactly in that case.
C9_AutomationIffCategory ==
    /\ \A c \in ClassifyCategories \cup Categories :
          hasAutomation(c) <=> c = "Google Workspace - Account Access"
    /\ \A r \in Slots :
          Dispatched(req[r]) =>
            LET q == req[r]
                automated == q.body.category = "Google Workspace - Account Access"
            IN
            /\ (q.automationResult # None) <=> automated
            /\ automated => q.automationResult[1].classified
            /\ q.pc = "AutomationRun" => automated
            /\ q.pc = "Classified" => ~automated
            /\ q.pc = "ResponseAssembled" =>
                  /\ (q.response.automation # None) <=> automated
                  /\ automated => q.response.automation[1].classified

C9_Witness ==
    /\ req[1].kind = "create" /\ req[1].pc = "ResponseAssembled"
    /\ req[1].body.category = "Google Workspace - Account Access"
    /\ req[1].response.automation # None
    /\ req[1].response.automation[1].classified
    /\ req[1].id = 2
    /\ tickets[2].category = "Other"
    /\ Len(tickets[2].work_notes) = 1

\* the table has a rule of the category with neither predicate
HasFallbackRule(rules, category) ==
    \E i \in 1..Len(rules) :
        /\ rules[i].category = category
        /\ rules[i].matchKeywords = None
        /\ rules[i].matchErrorCodes = None

\* C10: for a category that has a fallback rule, the topic classify returns
\* is never 'Unclassified / Manual Review', whatever the texts and the
\* error code.
C10_FallbackNeverUnclassified ==
    (cresult # None /\ HasFallbackRule(crules, cinput.category)) =>
        cresult[1].topic # "Unclassified / Manual Review"

\* no rule of the category matches and the fallback rule answers
C10_Witness ==
    /\ cresult # None
    /\ crules = CLASSIFICATION_RULES
    /\ cinput.category = "HubSpot - Email Deliverability"
    /\ cinput.shortDescription = <<"b", "r", "o", "k", "e", "n", " ", "w", "i", "d", "g", "e", "t">>
    /\ cinput.errorCode = Some(<<"E", "4", "2">>)
    /\ cresult[1].topic = "General HubSpot Email Deliverability Support"

\* the rules of the table, by their place in it, that have the input's
\* category and that the first pass accepts
MatchingRules(rules, input) ==
    {i \in 1..Len(rules) :
        rules[i].category = input.category /\ ruleMatches(rules[i], input)}

\* C11: when rules of the input's category match in the first pass, classify
\* returns the topic and the resources of the one declared first in the
\* table.
C11_FirstDeclaredWins ==
    (cresult # None /\ MatchingRules(crules, cinput) # {}) =>
        \E i \in MatchingRules(crules, cinput) :
            /\ \A j \in MatchingRules(crules, cinput) : i <= j
            /\ cresult[1].topic = crules[i].topic
            /\ cresult[1].recommendedResources = crules[i].resources

\* two rules with different topics match, declared after the category's
\* fallback rule
C11_Witness ==
    /\ cresult # None
    /\ crules = PROBE_RULES
    /\ cinput.category = "Other"
    /\ MatchingRules(crules, cinput) = {2, 3}
    /\ cresult[1].topic = "Probe Widget"

\* two characters are the same letter, whatever their case
SameLetter(a, b) ==
    \/ a = b
    \/ \E i \in 1..Len(UpperCase) :
          {a, b} = {UpperCase[i], LowerCase[i]}

\* kw occurs in text, whatever the case of either
OccursIgnoringCase(text, kw) ==
    \E i \in 0..(Len(text) - Len(kw)) :
        \A j \in 1..Len(kw) : SameLetter(text[i + j], kw[j])

\* a keyword of the rule occurs in the short or the long text
KeywordOccurs(rule, input) ==
    /\ rule.matchKeywords # None
    /\ \E k \in 1..Len(rule.matchKeywords[1]) :
          OccursIgnoringCase(
              input.shortDescription \o <<" ">> \o input.detailedDescription,
              rule.matchKeywords[1][k])

\* a pattern of the rule occurs in the error code
CodeOccurs(rule, input) ==
    /\ rule.matchErrorCodes # None
    /\ input.errorCode \notin {None, Some(<<>>)}
    /\ \E k \in 1..Len(rule.matchErrorCodes[1]) :
          OccursIgnoringCase(input.errorCode[1], rule.matchErrorCodes[1][k])

\* C12: a rule fires in the first pass exactly when one of its keywords
\* occurs in the combined text or one of its patterns occurs in the error
\* code, in any case; either alone is enough, also for a rule that has both
\* sets: the result is then never the fallback's or the unclassified one.
C12_CaseInsensitiveEither ==
    cresult # None =>
        /\ \A i \in 1..Len(crules) :
              ruleMatches(crules[i], cinput) <=>
                  (KeywordOccurs(crules[i], cinput) \/ CodeOccurs(crules[i], cinput))
        /\ \A i \in 1..Len(crules) :
              (/\ crules[i].category = cinput.category
               /\ KeywordOccurs(crules[i], cinput) \/ CodeOccurs(crules[i], cinput)) =>
                  \E j \in 1..i :
                      /\ crules[j].category = cinput.category
                      /\ ~isFallback(crules[j])
                      /\ cresult[1] = resultOf(crules[j])

\* a rule with both sets fires on the error code alone, the pattern 'HS-WF'
\* against the code 'hs-wf-1'
C12_Witness ==
    /\ cresult # None
    /\ crules = PROBE_RULES
    /\ cinput.category = "HubSpot - Lifecycle & Automation"
    /\ cinput.errorCode = Some(<<"h", "s", "-", "w", "f", "-", "1">>)
    /\ ~KeywordOccurs(crules[4], cinput)
    /\ CodeOccurs(crules[4], cinput)
    /\ cresult[1].topic = "Probe Workflow"

\* C13: when the table has no rule of the input's category, or every rule
\* of the category has a predicate and none matches, classify returns the
\* topic 'Unclassified / Manual Review' and no resources.
C13_UnclassifiedLastResort ==
    (/\ cresult # None
     /\ MatchingRules(crules, cinput) = {}
     /\ ~HasFallbackRule(crules, cinput.category)) =>
        /\ cresult[1].topic = "Unclassified / Manual Review"
        /\ cresult[1].recommendedResources = <<>>

\* the category's only rule has predicates and none matches
C13_Witness ==
    /\ cresult # None
    /\ crules = PROBE_RULES
    /\ cinput.category = "HubSpot - Lifecycle & Automation"
    /\ \E i \in 1..Len(crules) : crules[i].category = cinput.category
    /\ MatchingRules(crules, cinput) = {}
    /\ cresult[1].topic = "Unclassified / Manual Review"
    /\ cresult[1].recommendedResources = <<>>

\* the entries of the result that belong to the incident sys_id
EntriesFor(sys_id) ==
    SelectSeq(activity.result, LAMBDA e : e.sys_id = sys_id)

\* C14: the list getAutomationActivity(limit) returns has at most limit
\* entries.
C14_AtMostLimitEntries ==
    activity.phase = "returned" => Len(activity.result) <= activity.limit

\* C15: the entries returned are ordered by timestamp descending: each
\* entry's timestamp is at least that of the entry after it.
C15_NewestFirst ==
    activity.phase = "returned" =>
        \A i \in 1..(Len(activity.result) - 1) :
            activity.result[i].timestamp >= activity.result[i + 1].timestamp

\* the incident fetched second is the newer one and its entry comes first
C15_Witness ==
    /\ activity.phase = "returned"
    /\ Len(activity.fetched) = 2
    /\ activity.fetched[1].sys_updated_on = Some(1)
    /\ activity.fetched[2].sys_updated_on = None
    /\ Len(activity.result) >= 3
    /\ activity.result[1].sys_id = 2
    /\ activity.result[1].timestamp > activity.result[Len(activity.result)].timestamp
    /\ activity.result[Len(activity.result)].sys_id = 1

\* the line begins with the marker
BeginsWithMarker(line) ==
    /\ Len(line) >= Len(AUTO)
    /\ \A j \in 1..Len(AUTO) : line[j] = AUTO[j]

\* the text of a marker line after the marker
AfterMarker(line) == SubSeq(line, Len(AUTO) + 1, Len(line))

LinesOf(incident) ==
    IF incident.work_notes = None THEN <<>>
    ELSE split(incident.work_notes[1], "\n")

Emitted(line) ==
    \/ /\ BeginsWithMarker(line)
       /\ \E j \in 1..Len(AfterMarker(line)) : ~isSpace(AfterMarker(line)[j])
    \/ /\ line # <<>>
       /\ isSpace(line[1])
       /\ \E k \in 1..Len(line) :
             /\ \A j \in 1..k : isSpace(line[j])
             /\ BeginsWithMarker(SubSeq(line, k + 1, Len(line)))

\* the summary of an emitted line: the text after the marker, or the
\* whole indented line, without the whitespace around it
SummaryOf(line) ==
    IF BeginsWithMarker(line) THEN trim(AfterMarker(line)) ELSE trim(line)

C17_CreatedInStateNew ==
    \A r \in Slots :
        (req[r].kind = "create" /\ req[r].pc = "ResponseAssembled") =>
            /\ req[r].response.status = 201
            /\ req[r].response.state = 1
            /\ tickets[req[r].response.sys_id].state = 1

\* the platform's answer to the create came without a state
C17_Witness ==
    /\ req[1].kind = "create" /\ req[1].pc = "ResponseAssembled"
    /\ req[1].incident.sys_id = 2
    /\ req[1].incident.state = 0
    /\ req[1].body.clientEmail # None
    /\ req[1].response.state = 1

C19_ResolvedStateForced ==
    \A r \in Slots :
        (req[r].kind = "resolve" /\ Ended(req[r].id, "PATCH", "returned")) =>
            /\ req[r].pc = "Resolved"
            /\ req[r].response.status = 200
            /\ req[r].response.state = 6
            /\ req[r].response.sys_id = req[r].body.sys_id

\* the platform echoed the record as it was before the update
C19_Witness ==
    /\ req[1].kind = "resolve" /\ req[1].pc = "Resolved"
    /\ Ended(req[1].id, "PATCH", "returned")
    /\ req[1].result # <<>>
    /\ req[1].result[1].state = 1
    /\ tickets[1].state = 6
    /\ req[1].response.state = 6

\* the note has a line that says so
Says(note, text) == \E i \in 1..Len(note) : note[i].says = text

\* C20: on the automation path emailSent is false in the automation result
\* and in the response, with and without a resolved email, and the work
\* note the automation writes says the acknowledgement email was not sent.
C20_AcknowledgementNotSent ==
    \A r \in Slots :
        (Dispatched(req[r]) /\ req[r].automationResult # None) =>
            LET q == req[r]
                note == q.op.fields.work_notes
            IN  /\ ~q.automationResult[1].emailSent
                /\ q.automationResult[1].emailProvider = None
                /\ q.emailSends = (IF q.resolvedEmail # None THEN 1 ELSE 0)
                /\ q.op.method = "PATCH"
                /\ Says(note, "Acknowledgement email not sent (no email provider configured).")
                /\ ~Says(note, "Acknowledgement email sent to")
                /\ ~Says(note, "Acknowledgement email sent to client.")
                /\ q.call.phase = "returned" =>
                      tickets[q.incident.sys_id].work_notes = <<note>>
                /\ q.pc = "ResponseAssembled" =>
                      /\ q.response.automation # None
                      /\ ~q.response.automation[1].emailSent

\* an email was resolved, the acknowledgement was attempted and the note
\* was written
C20_Witness ==
    /\ req[1].kind = "create" /\ req[1].pc = "ResponseAssembled"
    /\ req[1].resolvedEmail = Some("user@example.com")
    /\ req[1].emailSends = 1
    /\ req[1].response.automation # None
    /\ ~req[1].response.automation[1].emailSent
    /\ req[1].response.automation[1].workNoteAdded
    /\ Says(tickets[2].work_notes[1],
            "Acknowledgement email not sent (no email provider configured).")

\* the records of a table that have the short_description
RecordsWith(table, shortDescription) ==
    Len(SelectSeq(seed.records[table], LAMBDA x : x = shortDescription))

\* C21: after any number of runs of the seed operation, each table holds
\* at most one record per seed short_description.
C21_SeedCreatesNoDuplicate ==
    \A t \in {"kb_knowledge", "incident"} :
        \A i \in 1..Len(seedList(t)) :
            RecordsWith(t, seedList(t)[i]) <= 1

\* C22: every call the create and resolve handlers make on the remote
\* table is a create (POST), a read (GET) or a partial update (PATCH),
\* never a delete, and no ticket of the table is ever gone; the list and
\* activity queries call getTable alone.
C22_NeverDeleted ==
    /\ \A i \in 1..Len(clientLog) : clientLog[i].method \in {"POST", "GET", "PATCH"}
    /\ \A r \in Slots : req[r].op.method # "DELETE"
    /\ \A id \in DOMAIN tickets : tickets[id] # Gone
    /\ Len(tickets) >=
          1 + Len(SelectSeq(clientLog,
                    LAMBDA e : e.method = "POST" /\ e.ev = "returned"))

\* a create with its annotation, then a resolve of the ticket it made
C22_Witness ==
    /\ served = 2
    /\ req[1].kind = "resolve" /\ req[1].pc = "Resolved"
    /\ req[1].body.sys_id = 2
    /\ Ended(1, "POST", "returned") /\ Ended(1, "PATCH", "returned")
    /\ Ended(2, "GET", "returned") /\ Ended(2, "PATCH", "returned")
    /\ Len(tickets) = 2 /\ tickets[2].state = 6

\* C23: an attempt that fails with an error that has no HTTP status is the
\* operation's last: the operation has raised with that error and no
\* delay follows it, so a first such failure leaves 1 call and 0 delays.
C23_NoStatusErrorPropagates ==
    \A i \in 1..Len(outcomes) :
        outcomes[i] = NoStatus =>
            /\ i = Len(outcomes)
            /\ rcall.phase = "raised"
            /\ rcall.lastError = NoStatus
            /\ rcall.delays = i - 1
            /\ i = 1 => (rcall.calls = 1 /\ rcall.delays = 0)

\* the states a create request goes to from a state
CreateSuccessors(pc) ==
    CASE pc = "Received" -> {"Validated", "Rejected"}
      [] pc = "Validated" -> {"TicketCreated", "Failed"}
      [] pc = "TicketCreated" -> {"AutomationRun", "Classified"}
      [] pc \in {"AutomationRun", "Classified"} -> {"AnnotationWritten"}
      [] pc = "AnnotationWritten" -> {"ResponseAssembled"}
      [] OTHER -> {}

\* the place of a state in the order of the pipeline
CreateRank(pc) ==
    CASE pc = "Received" -> 1
      [] pc = "Validated" -> 2
      [] pc = "TicketCreated" -> 3
      [] pc \in {"AutomationRun", "Classified"} -> 4
      [] pc = "AnnotationWritten" -> 5
      [] pc = "ResponseAssembled" -> 6
      [] OTHER -> 7

\* C24: a create request changes state only to a successor of its state in
\* Received, Validated, TicketCreated, AutomationRun or Classified,
\* AnnotationWritten, ResponseAssembled (or to Rejected or Failed, where it
\* stays), so never to an earlier one; and every update it issues comes
\* after its create has returned, on the ticket id the create returned,
\* and not before the request is past TicketCreated.
C24_CreateMovesForward ==
    /\ [][\A r \in Slots :
            (/\ req[r].kind = "create"
             /\ req'[r].id = req[r].id
             /\ req'[r].pc # req[r].pc) =>
                /\ req'[r].pc \in CreateSuccessors(req[r].pc)
                /\ CreateRank(req'[r].pc) > CreateRank(req[r].pc)]_vars
    /\ [](\A r \in Slots :
            req[r].kind = "create" =>
                \A i \in 1..Len(clientLog) :
                    (/\ clientLog[i].id = req[r].id
                     /\ clientLog[i].ev = "call"
                     /\ clientLog[i].method # "POST") =>
                        /\ clientLog[i].method = "PATCH"
                        /\ CreateRank(req[r].pc) \in 4..6
                        /\ clientLog[i].sys_id # 0
                        /\ clientLog[i].sys_id = req[r].incident.sys_id
                        /\ \E j \in 1..(i - 1) :
                              /\ clientLog[j].id = req[r].id
                              /\ clientLog[j].method = "POST"
                              /\ clientLog[j].ev = "returned")

\* a request that went through the generic path to its response: create
\* called and returned, then the update called and returned
C24_Witness ==
    /\ req[1].kind = "create" /\ req[1].pc = "ResponseAssembled"
    /\ req[1].automationResult = None
    /\ Len(clientLog) = 4
    /\ clientLog[1].method = "POST" /\ clientLog[1].ev = "call"
    /\ clientLog[2].method = "POST" /\ clientLog[2].ev = "returned"
    /\ clientLog[3].method = "PATCH" /\ clientLog[3].ev = "call"
    /\ clientLog[4].method = "PATCH" /\ clientLog[4].ev = "returned"
    /\ clientLog[3].sys_id = req[1].incident.sys_id

\* C25: a create request on which the automation has run has called the
\* annotation update exactly once, with the work note alone, with and
\* without a resolved email and whether or not the update returned; it has
\* attempted the acknowledgement send once when an email was resolved and
\* not at all otherwise.
C25_AnnotationOncePerAutomation ==
    \A r \in Slots :
        (req[r].kind = "create" /\ req[r].automationResult # None) =>
            LET q == req[r]
                updates == SelectSeq(clientLog,
                              LAMBDA e : e.id = q.id /\ e.ev = "call"
                                         /\ e.method # "POST")
            IN  /\ q.pc \in {"AutomationRun", "AnnotationWritten", "ResponseAssembled"}
                /\ Len(updates) = 1
                /\ updates[1].method = "PATCH"
                /\ updates[1].fields = {"work_notes"}
                /\ updates[1].sys_id = q.incident.sys_id
                /\ q.resolvedEmail = None => q.emailSends = 0
                /\ q.resolvedEmail # None => q.emailSends = 1

\* the automation ran without a resolved email and its update raised: the
\* update was still attempted, once
C25_Witness ==
    /\ req[1].kind = "create" /\ req[1].pc = "ResponseAssembled"
    /\ req[1].automationResult # None
    /\ req[1].resolvedEmail = None
    /\ req[1].emailSends = 0
    /\ ~req[1].automationResult[1].workNoteAdded
    /\ CallsOf(req[1].id, "PATCH") = 1
    /\ Ended(req[1].id, "PATCH", "raised")

\* texts a request of an automated category may carry
AutomationTexts ==
    [shortDescription :
        {<<"b", "r", "o", "k", "e", "n", " ", "w", "i", "d", "g", "e", "t">>,
         <<"P", "a", "s", "s", "w", "o", "r", "d", " ", "r", "e", "s", "e", "t">>},
     detailedDescription :
        {None, Some(<<"c", "a", "n", "n", "o", "t", " ", "l", "o", "g", "i", "n">>)},
     errorCode : {None, Some(<<"5", "0", "0">>)}]

\* C26: the response of a create request of a category that has automation
\* carries the automation's topic and resource list, whatever the request's
\* short text, long text and error code are, and not the topic the
\* classification engine gives when that one is different.
C26_AutomationOwnsEnrichment ==
    \A r \in Slots :
        (/\ req[r].kind = "create"
         /\ hasAutomation(req[r].body.category)
         /\ req[r].pc \in {"AnnotationWritten", "ResponseAssembled"}) =>
            /\ req[r].pc = "ResponseAssembled" =>
                  /\ req[r].response.topic = AUTOMATION_TOPIC
                  /\ req[r].response.recommendedResources =
                        GOOGLE_WORKSPACE_ACCOUNT_ACCESS_RESOURCES
            /\ req[r].pc = "AnnotationWritten" => \A t \in AutomationTexts :
                  LET q == [req[r] EXCEPT
                              !.body.shortDescription = t.shortDescription,
                              !.body.detailedDescription = t.detailedDescription,
                              !.body.errorCode = t.errorCode]
                      response == clientIncidentResponse(q)
                  IN  /\ response.topic = AUTOMATION_TOPIC
                      /\ response.recommendedResources =
                            GOOGLE_WORKSPACE_ACCOUNT_ACCESS_RESOURCES
                      /\ enrichmentOf(q.body).topic # AUTOMATION_TOPIC =>
                            response.topic # enrichmentOf(q.body).topic

\* the engine gives the fallback topic for the request's text, and the
\* response has the automation's
C26_Witness ==
    /\ req[1].kind = "create" /\ req[1].pc = "ResponseAssembled"
    /\ hasAutomation(req[1].body.category)
    /\ enrichmentOf(req[1].body).topic =
          "General Google Workspace Account Access Support"
    /\ req[1].response.topic = "Google Workspace Account Access"
    /\ Len(req[1].response.recommendedResources) = 4

\* the rules of the input's category that have neither predicate
FallbackRules(rules, input) ==
    {i \in 1..Len(rules) :
        /\ rules[i].category = input.category
        /\ rules[i].matchKeywords = None
        /\ rules[i].matchErrorCodes = None}

\* a rule of the input's category fires on the text or on the error code
SomeRuleFires(rules, input) ==
    \E i \in 1..Len(rules) :
        /\ rules[i].category = input.category
        /\ KeywordOccurs(rules[i], input) \/ CodeOccurs(rules[i], input)

\* C27: classify returns a fallback rule's topic and resources only when no
\* rule of the category fires on the text or the error code, wherever the
\* fallback rule is declared; and when none fires and the category has a
\* fallback rule, it returns the first one's.
C27_FallbackOnlyInSecondPass ==
    cresult # None =>
        /\ \A f \in FallbackRules(crules, cinput) :
              cresult[1] = resultOf(crules[f]) => ~SomeRuleFires(crules, cinput)
        /\ (~SomeRuleFires(crules, cinput) /\ FallbackRules(crules, cinput) # {}) =>
              \E f \in FallbackRules(crules, cinput) :
                  /\ \A g \in FallbackRules(crules, cinput) : f <= g
                  /\ cresult[1] = resultOf(crules[f])

\* the fallback rule is declared first, a rule declared after it fires, and
\* the result is not the fallback's
C27_Witness ==
    /\ cresult # None
    /\ crules = PROBE_RULES
    /\ FallbackRules(crules, cinput) = {1}
    /\ \E i \in 2..Len(crules) :
          crules[i].category = cinput.category /\ KeywordOccurs(crules[i], cinput)
    /\ cresult[1] # resultOf(crules[1])
    /\ cresult[1].topic \in {"Probe Widget", "Probe Broken"}

PriorityCode(label) ==
    CASE label = "High" -> "1"
      [] label = "Normal" -> "3"
      [] label = "Low" -> "5"

\* C30: the priority field of the create call is the numeric code of the
\* request's priority label, High "1", Normal "3", Low "5", and never the
\* label.
C30_PriorityMappedToCode ==
    (intake.sent # <<>> /\ intake.payload.priority # None) =>
        /\ intake.sent[1].priority = Some(PriorityCode(intake.payload.priority[1]))
        /\ intake.sent[1].priority # intake.payload.priority

\* C29: every update sent carries either the work note alone or exactly
\* state, close_code and close_notes: a create request's update is the
\* former, a resolve request's the latter; and a returned work-note update
\* leaves the ticket's other fields as the create made them.
C29_UpdatesArePartial ==
    /\ \A i \in 1..Len(clientLog) :
          clientLog[i].method = "PATCH" =>
              clientLog[i].fields \in {{"work_notes"},
                                       {"state", "close_code", "close_notes"}}
    /\ \A r \in Slots :
          req[r].op.method = "PATCH" =>
              LET q == req[r] IN
              /\ q.kind = "create" =>
                    /\ DOMAIN q.op.fields = {"work_notes"}
                    /\ q.call.phase = "returned" =>
                          LET ticket == tickets[q.op.sys_id] IN
                          /\ ticket.state = 1
                          /\ ticket.close_code = "" /\ ticket.close_notes = ""
                          /\ ticket.category = q.body.category
                          /\ ticket.description = descriptionOf(q.body)
                          /\ Len(ticket.work_notes) = 1
              /\ q.kind = "resolve" =>
                    DOMAIN q.op.fields = {"state", "close_code", "close_notes"}

\* a work-note update and a resolve update have both been sent and have
\* returned
C29_Witness ==
    /\ \E i \in 1..Len(clientLog) :
          /\ clientLog[i].ev = "returned" /\ clientLog[i].method = "PATCH"
          /\ clientLog[i].fields = {"work_notes"}
    /\ \E i \in 1..Len(clientLog) :
          /\ clientLog[i].ev = "returned" /\ clientLog[i].method = "PATCH"
          /\ clientLog[i].fields = {"state", "close_code", "close_notes"}
    /\ req[1].kind = "resolve" /\ req[1].pc = "Resolved"
    /\ Len(tickets[req[1].body.sys_id].work_notes) = 1

\* a request that has arrived and has no response yet
InFlight(r) ==
    req[r].pc \notin {"Idle", "Rejected", "Failed", "ResponseAssembled", "Resolved"}

Pending(r) == req[r].call.phase \in {"calling", "waiting"}

\* C32: under fair scheduling every operation of the remote client ends
\* (it returns a result or raises an error), and every create or resolve
\* request that has arrived reaches a terminal outcome (its response or an
\* error response), whatever the platform answers.
C32_EveryRequestEnds ==
    /\ Pending(1) ~> CallDone(req[1].call)
    /\ InFlight(1) ~> ~InFlight(1)

\* a request answered with an error after its operation used up its
\* attempts on errors the wrapper retries
C32_Witness ==
    /\ req[1].pc = "Failed"
    /\ req[1].call.phase = "raised"
    /\ req[1].call.lastError = 500

\* base * factor^(k-1) with the documented base 500 and factor 2
NominalDelay(k) == 500 * 2^(k - 1)

CalledAt(id, method) ==
    LET at == {i \in 1..Len(clientLog) :
                  /\ clientLog[i].ev = "call"
                  /\ clientLog[i].id = id
                  /\ clientLog[i].method = method}
    IN  IF at = {} THEN 0 ELSE CHOOSE i \in at : \A j \in at : i <= j

\* the request in slot r is a resolve that passed the state check (it
\* fetched the ticket in a state other than 6 and 7) and sent its update
SentUpdate(r) ==
    /\ req[r].kind = "resolve"
    /\ req[r].incident.sys_id = req[r].body.sys_id
    /\ ~alreadyResolved(req[r].incident.state)
    /\ CalledAt(req[r].id, "PATCH") > 0

\* C34: two resolve requests for the same open ticket that run
\* concurrently (each starts its fetch before the other sends an update)
\* issue at most one update between them: they never both pass the state
\* check and both send the update.
C34_AtMostOneUpdate ==
    \A r \in Slots :
        \A s \in Slots \ {r} :
            (/\ req[r].kind = "resolve" /\ req[s].kind = "resolve"
             /\ req[r].body.sys_id = req[s].body.sys_id
             /\ CalledAt(req[r].id, "GET") > 0
             /\ CalledAt(req[s].id, "GET") > 0
             /\ SentUpdate(r)
             /\ CalledAt(req[s].id, "GET") < CalledAt(req[r].id, "PATCH"))
                => ~(/\ SentUpdate(s)
                     /\ CalledAt(req[r].id, "GET") < CalledAt(req[s].id, "PATCH"))

\* the note states that an acknowledgement was sent to the client
SaysSent(note) ==
    \/ Says(note, "Acknowledgement email sent to")
    \/ Says(note, "Acknowledgement email sent to client.")
    \/ Says(note, "Sent acknowledgement and self-service resources to")

\* request q made an acknowledgement send, and it reported sent = true
SendReportedSent(q) ==
    /\ q.emailSends > 0
    /\ q.automationResult # None
    /\ q.automationResult[1].emailSent

\* C35: no annotation the create pipeline writes states that an
\* acknowledgement was sent to the client unless an acknowledgement send
\* reported sent = true; the generic path, which performs no send, never
\* writes a 'Sent acknowledgement' line.
C35_NoUnsentAcknowledgementClaimed ==
    \A r \in Slots :
        (req[r].kind = "create" /\ req[r].pc \in {"AutomationRun", "Classified"}) =>
            LET q == req[r]
                note == q.op.fields.work_notes
            IN  /\ SaysSent(note) => SendReportedSent(q)
                /\ q.pc = "Classified" =>
                      ~Says(note, "Sent acknowledgement and self-service resources to")

\* the sys_id request id's create call returned (0: it has not returned)
CreatedBy(id) ==
    LET at == {i \in 1..Len(clientLog) :
                  /\ clientLog[i].ev = "returned"
                  /\ clientLog[i].id = id
                  /\ clientLog[i].method = "POST"}
    IN  IF at = {} THEN 0 ELSE clientLog[CHOOSE i \in at : TRUE].got

\* C36: under any interleaving of concurrent requests, a create request
\* whose remote create succeeded attempts exactly one annotation update
\* (the automation's or the generic one, never both, never none once it
\* is past the dispatch), and that update targets the ticket id its own
\* create call returned.
C36_OneAnnotationOnOwnTicket ==
    /\ \A r \in Slots :
          req[r].kind = "create" =>
            LET q == req[r] IN
            /\ CallsOf(q.id, "PATCH") <= 1
            /\ CreatedBy(q.id) # 0 =>
                  /\ q.pc \in {"Validated", "TicketCreated", "AutomationRun",
                               "Classified", "AnnotationWritten",
                               "ResponseAssembled"}
                  /\ q.pc \in {"Validated", "TicketCreated"} =>
                        CallsOf(q.id, "PATCH") = 0
                  /\ q.pc \in {"AutomationRun", "Classified",
                               "AnnotationWritten", "ResponseAssembled"} =>
                        /\ CallsOf(q.id, "PATCH") = 1
                        /\ (q.automationResult # None) = hasAutomation(q.body.category)
                        /\ q.op.method = "PATCH"
                        /\ q.op.sys_id = CreatedBy(q.id)
    /\ \A i \in 1..Len(clientLog) :
          (/\ clientLog[i].ev = "call"
           /\ clientLog[i].method = "PATCH"
           /\ "work_notes" \in clientLog[i].fields) =>
              /\ CreatedBy(clientLog[i].id) # 0
              /\ clientLog[i].sys_id = CreatedBy(clientLog[i].id)
              /\ \A j \in 1..Len(clientLog) :
                    (/\ clientLog[j].ev = "call"
                     /\ clientLog[j].method = "PATCH"
                     /\ "work_notes" \in clientLog[j].fields
                     /\ clientLog[j].sys_id = clientLog[i].sys_id) => j = i

\* two creates in flight together, the second request's create returning
\* first, each with its one annotation written to its own ticket
C36_Witness ==
    /\ req[1].kind = "create" /\ req[2].kind = "create"
    /\ req[1].pc = "ResponseAssembled" /\ req[2].pc = "ResponseAssembled"
    /\ CreatedBy(1) = 3 /\ CreatedBy(2) = 2
    /\ Len(tickets[3].work_notes) = 1 /\ Len(tickets[2].work_notes) = 1
    /\ req[1].automationResult # None /\ req[2].automationResult = None

\* C37: the only lifecycle transition the gateway requests is to state 6,
\* and only for a ticket it fetched in a state other than 6 and 7; with
\* one request at a time a ticket in state 6 or 7 is never changed by a
\* step of the gateway (a canceled ticket stays canceled).
C37_ClosedTicketsUntouched ==
    /\ [][\A i \in 1..Len(tickets) :
            tickets[i].state \in {6, 7} => tickets'[i] = tickets[i]]_vars
    /\ [](\A r \in Slots :
            "state" \in DOMAIN req[r].op.fields =>
                /\ req[r].kind = "resolve"
                /\ req[r].op.method = "PATCH"
                /\ req[r].op.fields.state = 6
                /\ req[r].incident.sys_id = req[r].op.sys_id
                /\ req[r].incident.state \notin {6, 7})
    /\ [](\A i \in 1..Len(clientLog) :
            "state" \in clientLog[i].fields =>
                /\ clientLog[i].method = "PATCH"
                /\ clientLog[i].fields = {"state", "close_code", "close_notes"})

\* a resolve of a canceled ticket has been answered, and the ticket is
\* still canceled
C37_Witness ==
    /\ req[1].kind = "resolve"
    /\ req[1].pc = "Resolved"
    /\ req[1].incident.state = 7
    /\ tickets[req[1].body.sys_id].state = 7
    /\ CallsOf(req[1].id, "PATCH") = 0

\* the tickets of the table that the listing returned
Listed(record) ==
    \E i \in 1..Len(listing.incidents) :
        listing.incidents[i].sys_id = record.sys_id

\* C38: the 'open' listing filter and the resolve guard agree: a ticket
\* that resolve treats as already resolved (state 6 or 7) is never
\* selected by the open filter, and every ticket the open filter selects
\* is one on which resolve issues its update.
C38_OpenFilterAgreesWithGuard ==
    (listing.phase \in {"fetching", "returned"} /\ listing.query.state = "open") =>
        \A i \in 1..Len(listing.table) :
            LET record == listing.table[i] IN
            /\ alreadyResolved(record.state) =>
                  /\ ~selects(listing.sysparmQuery, record)
                  /\ ~Listed(record)
            /\ (selects(listing.sysparmQuery, record) \/ Listed(record)) =>
                  ~alreadyResolved(record.state)

\* an open listing that returned the ticket in state 5 and left out the
\* canceled one
C38_Witness ==
    /\ listing.phase = "returned"
    /\ listing.query.state = "open"
    /\ Len(listing.table) = 2
    /\ listing.table[1].state = 5
    /\ listing.table[2].state = 7
    /\ Len(listing.incidents) = 1
    /\ listing.incidents[1].sys_id = 1

\* C39: every entry listActivity returns has a summary that is not empty
\* and does not begin with the marker '[AUTO]': the marker is stripped
\* from every kept line, also from one with whitespace before the marker.
C39_MarkerStrippedFromSummaries ==
    activity.phase = "returned" =>
        \A i \in 1..Len(activity.result) :
            /\ activity.result[i].summary # <<>>
            /\ ~startsWith(activity.result[i].summary, AUTO)

\* C40: the delays one operation waits for are strictly increasing from
\* each retry to the next, whatever jitter each of them drew.
C40_DelaysIncrease ==
    \A k \in 1..(Len(totalDelays) - 1) : totalDelays[k] < totalDelays[k + 1]

\* four delays, each with the largest jitter the model draws followed by
\* one with the least: the closest two successive delays can get
C40_Witness ==
    /\ Len(totalDelays) = 4
    /\ totalDelays[1] = 560
    /\ totalDelays[2] = 850
    /\ totalDelays[3] = 2240
    /\ totalDelays[4] = 3400

=============================================================================
